---- MODULE Spec2Model ----
(***************************************************************************)
(* A model of the health-api service of kube-nap-charts: the Grafana store *)
(* that walks the loosely typed rule-state response, the business layer    *)
(* that aggregates it, the HTTP handlers, and the middleware pipeline of   *)
(* the web framework (Logger, Errors, Prometheus, Metrics, Panics, Cors).  *)
(***************************************************************************)
EXTENDS Integers, Sequences, FiniteSets, TLC

(***************************************************************************)
(* Bounds of the model.                                                    *)
(***************************************************************************)
\* most rules in one rule-state response, over all its groups
MaxRules == 3
\* most groups in one rule-state response
MaxGroups == 2
\* most alert instances nested in one rule
MaxAlerts == 2
\* most requests the API server serves in one behaviour
MaxRequests == 2

(***************************************************************************)
(* JSON values as encoding/json decodes them into `any`.  A value carries  *)
(* its dynamic type; a Go type assertion v.(T) succeeds iff the tag is T.  *)
(* Absent is what a map lookup of a missing key yields (nil); Num stands   *)
(* for a value of some other type (a number, a bool).                      *)
(***************************************************************************)
Absent == [t |-> "absent"]
Null == [t |-> "null"]
Num == [t |-> "num"]
Garbage == [t |-> "garbage"]
Str(s) == [t |-> "str", s |-> s]
Arr(a) == [t |-> "arr", a |-> a]
Obj(o) == [t |-> "obj", o |-> o]

\* m[key] on a map[string]any: nil when the key is missing
Lookup(m, key) == IF key \in DOMAIN m.o THEN m.o[key] ELSE Absent

\* m[key] on a map[string]string: "" when the key is missing
MapGet(m, key) == IF key \in DOMAIN m THEN m[key] ELSE ""

EmptyMap == [k \in {} |-> ""]

getString(m, key) ==
    LET v == Lookup(m, key)
    IN  IF v.t = "str" THEN v.s ELSE ""

getStringMap(m, key) ==
    LET v == Lookup(m, key)
    IN  IF v.t = "obj"
        THEN [k \in {k \in DOMAIN v.o : v.o[k].t = "str"} |-> v.o[k].s]
        ELSE EmptyMap

(***************************************************************************)
(* Time.  Instants are integers, ZeroTime is Go's zero time.Time.          *)
(* time.Parse(time.RFC3339, s) is modelled on the timestamps the model     *)
(* uses: two spellings of one instant, the zero instant, and strings that  *)
(* do not parse.                                                           *)
(***************************************************************************)
ZeroTime == 0
Clock == {8, 9}

TimeParse(s) ==
    CASE s = "2024-05-01T10:00:00Z"      -> [ok |-> TRUE, t |-> 3]
      [] s = "2024-05-01T12:00:00+02:00" -> [ok |-> TRUE, t |-> 3]
      [] s = "0001-01-01T00:00:00Z"      -> [ok |-> TRUE, t |-> ZeroTime]
      [] OTHER                           -> [ok |-> FALSE, t |-> ZeroTime]

(***************************************************************************)
(* Domain model of healthbus.                                              *)
(***************************************************************************)
StatusHealthy == "healthy"
StatusDown == "down"
StatusUnknown == "unknown"

NoCheck == [Target |-> "", Status |-> "", LastChecked |-> ZeroTime, Probe |-> ""]
NoHealthSummary == [Total |-> 0, Healthy |-> 0, Down |-> 0, Unknown |-> 0, Checks |-> <<>>]
NoAlertSummary == [Total |-> 0, Firing |-> 0, Pending |-> 0, Normal |-> 0, Alerts |-> <<>>]

(***************************************************************************)
(* The alerting backend as one outbound call sees it: the call fails in    *)
(* transport (refused, timed out, cancelled), or a response arrives with a *)
(* status code and a body.  NoBackend is the outcome of a request that     *)
(* makes no outbound call.                                                 *)
(***************************************************************************)
NoBackend == [kind |-> "none"]
Unreachable == [kind |-> "unreachable"]
BadStatus == [kind |-> "status"]
Body(j) == [kind |-> "body", json |-> j]

GrafanaUnset == ""
GrafanaBadURL == "http://[::1"
GrafanaGoodURL == "http://grafana:3000"

\* http.NewRequestWithContext fails when the URL does not parse
NewRequestFails(grafanaURL) == grafanaURL = GrafanaBadURL

\* json.NewDecoder(body).Decode(&stateData) with stateData map[string]any:
\* a JSON null leaves the map nil, anything that is not an object is an error
DecodeFails(j) == j.t \notin {"obj", "null"}

\* The part every store operation starts with (lines 39-67, 144-172, 244-272):
\* "" when the decoded body is at hand, else the error message.
fetchError(grafanaURL, b) ==
    IF grafanaURL = GrafanaUnset THEN "grafana not configured"
    ELSE IF NewRequestFails(grafanaURL) THEN "creating state request"
    ELSE IF b.kind \notin {"status", "body"} THEN "querying alert state"
    ELSE IF b.kind = "status" THEN "grafana returned status"
    ELSE IF DecodeFails(b.json) THEN "decoding state response"
    ELSE ""

outboundCallsRetrying(grafanaURL) ==
    IF grafanaURL = GrafanaUnset \/ NewRequestFails(grafanaURL) THEN 0 ELSE 2

\* the number of httpClient.Do calls the operation makes
outboundCalls(grafanaURL) ==
    IF grafanaURL = GrafanaUnset \/ NewRequestFails(grafanaURL) THEN 0 ELSE 1

\* stateData["data"].(map[string]any) then data["groups"].([]any):
\* the groups sequence and whether both assertions succeeded
groupsOf(j) ==
    LET data == IF j.t = "obj" THEN Lookup(j, "data") ELSE Absent
        groups == IF data.t = "obj" THEN Lookup(data, "groups") ELSE Absent
    IN  IF groups.t = "arr" THEN [ok |-> TRUE, groups |-> groups.a]
        ELSE [ok |-> FALSE, groups |-> <<>>]

\* g["rules"].([]any) of a group that is an object, else nothing to walk
rulesOf(group) ==
    IF group.t # "obj" THEN <<>>
    ELSE LET rules == Lookup(group, "rules")
         IN  IF rules.t = "arr" THEN rules.a ELSE <<>>

\* the rules of all groups in the order the nested loops visit them
RECURSIVE walkOrder(_, _)
walkOrder(groups, i) ==
    IF i > Len(groups) THEN <<>>
    ELSE rulesOf(groups[i]) \o walkOrder(groups, i + 1)

(***************************************************************************)
(* Store.QueryHealthChecks                                                 *)
(***************************************************************************)
\* lines 107-119
lastCheckedOfAnyAlert(r, now) ==
    LET alerts == Lookup(r, "alerts")
        parsed == {TimeParse(getString(alerts.a[i], "activeAt")).t :
                     i \in {j \in 1..(IF alerts.t = "arr" THEN Len(alerts.a) ELSE 0) :
                              /\ alerts.a[j].t = "obj"
                              /\ TimeParse(getString(alerts.a[j], "activeAt")).ok}}
    IN  IF parsed \ {ZeroTime} = {} THEN now ELSE CHOOSE t \in parsed \ {ZeroTime} : TRUE

lastCheckedOf(r, now) ==
    LET alerts == Lookup(r, "alerts")
        parsed == IF alerts.t = "arr" /\ Len(alerts.a) > 0 /\ alerts.a[1].t = "obj"
                  THEN TimeParse(getString(alerts.a[1], "activeAt"))
                  ELSE [ok |-> FALSE, t |-> ZeroTime]
        lastChecked == IF parsed.ok THEN parsed.t ELSE ZeroTime
    IN  IF lastChecked = ZeroTime THEN now ELSE lastChecked

healthStatusSwapped(state) ==
    IF state = "firing" THEN StatusDown
    ELSE IF state = "normal" THEN StatusHealthy
    ELSE StatusUnknown

\* lines 121-126
healthStatus(state) ==
    IF state = "firing" THEN StatusDown
    ELSE IF state = "pending" THEN StatusUnknown
    ELSE StatusHealthy

checksOfRuleKeepUntargeted(r, now) ==
    IF r.t # "obj" THEN <<>>
    ELSE LET labels == getStringMap(r, "labels")
         IN  << [Target |-> MapGet(labels, "target"),
                 Status |-> healthStatus(getString(r, "state")),
                 LastChecked |-> lastCheckedOf(r, now),
                 Probe |-> MapGet(labels, "probe")] >>

\* one iteration of the inner loop, lines 93-136: the checks it appends
checksOfRule(r, now) ==
    IF r.t # "obj" THEN <<>>
    ELSE LET state == getString(r, "state")
             labels == getStringMap(r, "labels")
             target == MapGet(labels, "target")
         IN  IF target = "" THEN <<>>
             ELSE << [Target |-> target,
                      Status |-> healthStatus(state),
                      LastChecked |-> lastCheckedOf(r, now),
                      Probe |-> MapGet(labels, "probe")] >>

RECURSIVE checksOfRules(_, _, _)
checksOfRules(rules, i, now) ==
    IF i > Len(rules) THEN <<>>
    ELSE checksOfRule(rules[i], now) \o checksOfRules(rules, i + 1, now)

StoreQueryHealthChecksStrict(grafanaURL, b, now) ==
    LET err == fetchError(grafanaURL, b)
        gs == groupsOf(b.json)
    IN  IF err # "" THEN [checks |-> <<>>, err |-> err]
        ELSE IF ~gs.ok THEN [checks |-> <<>>, err |-> "malformed state response"]
        ELSE [checks |-> checksOfRules(walkOrder(gs.groups, 1), 1, now), err |-> ""]

StoreQueryHealthChecks(grafanaURL, b, now) ==
    LET err == fetchError(grafanaURL, b)
        gs == groupsOf(b.json)
    IN  IF err # "" THEN [checks |-> <<>>, err |-> err]
        ELSE IF ~gs.ok THEN [checks |-> <<>>, err |-> ""]
        ELSE [checks |-> checksOfRules(walkOrder(gs.groups, 1), 1, now), err |-> ""]

(***************************************************************************)
(* Store.QueryHealthCheckByTarget                                          *)
(***************************************************************************)
\* lines 209-221
lastCheckedByTarget(r, now) ==
    LET alerts == Lookup(r, "alerts")
        parsed == IF alerts.t = "arr" /\ Len(alerts.a) > 0 /\ alerts.a[1].t = "obj"
                  THEN TimeParse(getString(alerts.a[1], "activeAt"))
                  ELSE [ok |-> FALSE, t |-> ZeroTime]
        lastChecked == IF parsed.ok THEN parsed.t ELSE ZeroTime
    IN  IF lastChecked = ZeroTime THEN now ELSE lastChecked

healthStatusByTargetFlipped(state) ==
    IF state = "pending" THEN StatusDown
    ELSE IF state = "firing" THEN StatusUnknown
    ELSE StatusHealthy

\* lines 223-228
healthStatusByTarget(state) ==
    IF state = "firing" THEN StatusDown
    ELSE IF state = "pending" THEN StatusUnknown
    ELSE StatusHealthy

\* lines 197-205: the rule is an object whose target label is the one asked for
matchesTarget(r, target) ==
    /\ r.t = "obj"
    /\ MapGet(getStringMap(r, "labels"), "target") = target

RECURSIVE firstMatchLast(_, _, _)
firstMatchLast(rules, i, target) ==
    IF i > Len(rules) THEN 0
    ELSE LET later == firstMatchLast(rules, i + 1, target)
         IN  IF later # 0 THEN later
             ELSE IF matchesTarget(rules[i], target) THEN i ELSE 0

\* the loops of lines 185-237 return at the first matching rule: its position
\* in walk order, 0 when the loops run to their end
RECURSIVE firstMatch(_, _, _)
firstMatch(rules, i, target) ==
    IF i > Len(rules) THEN 0
    ELSE IF matchesTarget(rules[i], target) THEN i
    ELSE firstMatch(rules, i + 1, target)

StoreQueryHealthCheckByTarget(grafanaURL, b, target, now) ==
    LET err == fetchError(grafanaURL, b)
        gs == groupsOf(b.json)
        rules == walkOrder(gs.groups, 1)
        i == firstMatch(rules, 1, target)
    IN  IF err # "" THEN [check |-> NoCheck, err |-> err]
        ELSE IF ~gs.ok \/ i = 0 THEN [check |-> NoCheck, err |-> "target not found"]
        ELSE [check |-> [Target |-> target,
                         Status |-> healthStatusByTarget(getString(rules[i], "state")),
                         LastChecked |-> lastCheckedByTarget(rules[i], now),
                         Probe |-> MapGet(getStringMap(rules[i], "labels"), "probe")],
              err |-> ""]

(***************************************************************************)
(* Store.QueryAlerts                                                       *)
(***************************************************************************)
\* lines 306-318
alertOfRule(r) ==
    LET alerts == Lookup(r, "alerts")
        first == IF alerts.t = "arr" /\ Len(alerts.a) > 0 /\ alerts.a[1].t = "obj"
                 THEN alerts.a[1] ELSE Obj(EmptyMap)
    IN  [Title |-> getString(r, "name"),
         State |-> getString(r, "state"),
         Labels |-> getStringMap(r, "labels"),
         Annotations |-> getStringMap(r, "annotations"),
         ActiveAt |-> getString(first, "activeAt"),
         Value |-> getString(first, "value")]

addAlertDefaultNormal(summary, alert) ==
    LET s == [summary EXCEPT !.Alerts = Append(@, alert), !.Total = @ + 1]
    IN  CASE alert.State = "firing"  -> [s EXCEPT !.Firing = @ + 1]
          [] alert.State = "pending" -> [s EXCEPT !.Pending = @ + 1]
          [] OTHER                   -> [s EXCEPT !.Normal = @ + 1]

\* lines 320-330
addAlert(summary, alert) ==
    LET s == [summary EXCEPT !.Alerts = Append(@, alert), !.Total = @ + 1]
    IN  CASE alert.State = "firing"  -> [s EXCEPT !.Firing = @ + 1]
          [] alert.State = "pending" -> [s EXCEPT !.Pending = @ + 1]
          [] alert.State = "normal"  -> [s EXCEPT !.Normal = @ + 1]
          [] OTHER                   -> s

RECURSIVE alertsOfRules(_, _, _)
alertsOfRules(rules, i, summary) ==
    IF i > Len(rules) THEN summary
    ELSE IF rules[i].t # "obj" THEN alertsOfRules(rules, i + 1, summary)
    ELSE alertsOfRules(rules, i + 1, addAlert(summary, alertOfRule(rules[i])))

StoreQueryAlerts(grafanaURL, b) ==
    LET err == fetchError(grafanaURL, b)
        gs == groupsOf(b.json)
    IN  IF err # "" THEN [summary |-> NoAlertSummary, err |-> err]
        ELSE IF ~gs.ok THEN [summary |-> NoAlertSummary, err |-> ""]
        ELSE [summary |-> alertsOfRules(walkOrder(gs.groups, 1), 1, NoAlertSummary),
              err |-> ""]

(***************************************************************************)
(* Business                                                                *)
(***************************************************************************)
countStatusDropUnknown(summary, check) ==
    IF check.Status = StatusDown THEN [summary EXCEPT !.Down = @ + 1]
    ELSE IF check.Status = StatusUnknown THEN summary
    ELSE [summary EXCEPT !.Healthy = @ + 1]

\* the switch of lines 46-53
countStatus(summary, check) ==
    CASE check.Status = StatusHealthy -> [summary EXCEPT !.Healthy = @ + 1]
      [] check.Status = StatusDown    -> [summary EXCEPT !.Down = @ + 1]
      [] check.Status = StatusUnknown -> [summary EXCEPT !.Unknown = @ + 1]
      [] OTHER                        -> summary

RECURSIVE countStatuses(_, _, _)
countStatuses(checks, i, summary) ==
    IF i > Len(checks) THEN summary
    ELSE countStatuses(checks, i + 1, countStatus(summary, checks[i]))

BusinessQueryHealthChecks(grafanaURL, b, now) ==
    LET r == StoreQueryHealthChecks(grafanaURL, b, now)
    IN  IF r.err # "" THEN [summary |-> NoHealthSummary, err |-> r.err]
        ELSE [summary |-> countStatuses(r.checks, 1,
                              [NoHealthSummary EXCEPT !.Checks = r.checks,
                                                      !.Total = Len(r.checks)]),
              err |-> ""]

BusinessQueryHealthCheckByTarget(grafanaURL, b, target, now) ==
    StoreQueryHealthCheckByTarget(grafanaURL, b, target, now)

BusinessQueryAlerts(grafanaURL, b) == StoreQueryAlerts(grafanaURL, b)

(***************************************************************************)
(* errs: the error kinds, their HTTP status, and the structured error.     *)
(***************************************************************************)
OK == 0
Canceled == 1
Unknown == 2
InvalidArgument == 3
DeadlineExceeded == 4
NotFound == 5
AlreadyExists == 6
PermissionDenied == 7
Unauthenticated == 8
ResourceExhausted == 9
FailedPrecondition == 10
Aborted == 11
OutOfRange == 12
Unimplemented == 13
Internal == 14
Unavailable == 15
DataLoss == 16
InternalOnlyLog == 17

ErrCodes == OK..InternalOnlyLog

httpStatus ==
    (OK :> 200) @@ (Canceled :> 408) @@ (Unknown :> 500) @@ (InvalidArgument :> 400)
    @@ (DeadlineExceeded :> 504) @@ (NotFound :> 404) @@ (AlreadyExists :> 409)
    @@ (PermissionDenied :> 403) @@ (Unauthenticated :> 401)
    @@ (ResourceExhausted :> 429) @@ (FailedPrecondition :> 400) @@ (Aborted :> 409)
    @@ (OutOfRange :> 400) @@ (Unimplemented :> 501) @@ (Internal :> 500)
    @@ (Unavailable :> 503) @@ (DataLoss :> 500) @@ (InternalOnlyLog :> 500)

\* Error.HTTPStatus: a Go map lookup, 0 for a code the table does not hold
HTTPStatus(code) == IF code \in DOMAIN httpStatus THEN httpStatus[code] ELSE 0

\* errs.Newf: the message is the formatted text, here the sequence of its
\* parts; New records its caller, which for Newf is Newf itself
Newf(code, msg) == [k |-> "err", code |-> code, msg |-> msg, site |-> "errs.go:103"]

(***************************************************************************)
(* web.Encoder values: what a handler may return.                          *)
(***************************************************************************)
NilEnc == [k |-> "nil"]
JSONResponse(data) == [k |-> "json", data |-> data]

(***************************************************************************)
(* healthapp.App: the handlers.                                            *)
(***************************************************************************)
AppQueryHealthChecks(grafanaURL, b, now) ==
    LET r == BusinessQueryHealthChecks(grafanaURL, b, now)
    IN  IF r.err # "" THEN Newf(Internal, <<"query health checks: ", r.err>>)
        ELSE JSONResponse(r.summary)

AppQueryHealthCheckByTargetUnchecked(grafanaURL, b, target, now) ==
    LET r == BusinessQueryHealthCheckByTarget(grafanaURL, b, target, now)
    IN  IF r.err # "" THEN Newf(NotFound, <<"health check not found: ", r.err>>)
        ELSE JSONResponse(r.check)

AppQueryHealthCheckByTargetInternal(grafanaURL, b, target, now) ==
    IF target = "" THEN Newf(InvalidArgument, <<"target parameter required">>)
    ELSE LET r == BusinessQueryHealthCheckByTarget(grafanaURL, b, target, now)
         IN  IF r.err = "target not found"
             THEN Newf(NotFound, <<"health check not found: ", r.err>>)
             ELSE IF r.err # "" THEN Newf(Internal, <<"query health check: ", r.err>>)
             ELSE JSONResponse(r.check)

AppQueryHealthCheckByTarget(grafanaURL, b, target, now) ==
    IF target = "" THEN Newf(InvalidArgument, <<"target parameter required">>)
    ELSE LET r == BusinessQueryHealthCheckByTarget(grafanaURL, b, target, now)
         IN  IF r.err # "" THEN Newf(NotFound, <<"health check not found: ", r.err>>)
             ELSE JSONResponse(r.check)

AppQueryAlerts(grafanaURL, b) ==
    LET r == BusinessQueryAlerts(grafanaURL, b)
    IN  IF r.err # "" THEN Newf(Internal, <<"query alerts: ", r.err>>)
        ELSE JSONResponse(r.summary)

AppReadiness == JSONResponse([Status |-> "ok"])

AppLiveness == JSONResponse([Status |-> "ok"])

\* the handler a main-group route is bound to, applied to a request
\* (route.go lines 24-26), and the outbound calls it makes
Handler(route, grafanaURL, b, target, now) ==
    CASE route = "health"   -> AppQueryHealthChecks(grafanaURL, b, now)
      [] route = "byTarget" -> AppQueryHealthCheckByTarget(grafanaURL, b, target, now)
      [] route = "alerts"   -> AppQueryAlerts(grafanaURL, b)

HandlerCalls(route, grafanaURL, target) ==
    IF route = "byTarget" /\ target = "" THEN 0 ELSE outboundCalls(grafanaURL)

\* the clock is read only on the paths that build a HealthCheck
ReadsClock(route, enc) == route \in {"health", "byTarget"} /\ enc.k = "json"

(***************************************************************************)
(* The inputs: rule-state responses of the alerting backend.               *)
(***************************************************************************)
MkRule(state, labels, alerts) ==
    Obj([name |-> Str("ProbeFailed"), state |-> state, labels |-> labels,
         alerts |-> alerts])

MkLabels(target, probe) == Obj([target |-> target, probe |-> probe])

\* the rules the multi-rule responses are built from
WalkRules ==
    { Num,
      MkRule(Str("firing"), Absent, Absent),
      MkRule(Str("firing"), MkLabels(Str("web"), Str("blackbox")), Absent),
      MkRule(Str("normal"), MkLabels(Str("web"), Absent), Absent),
      MkRule(Str("pending"), MkLabels(Str("db"), Str("blackbox")), Absent) }

\* every shape one rule can take
StateValues ==
    {Absent, Num, Str("firing"), Str("pending"), Str("normal"), Str(""), Str("paused")}

LabelValues ==
    {Absent, Num}
    \cup {MkLabels(t, p) : t \in {Absent, Num, Str(""), Str("web"), Str("db")},
                           p \in {Absent, Str("blackbox")}}

AlertValues ==
    {Num}
    \cup {Obj([activeAt |-> a]) :
            a \in {Absent, Str("yesterday"), Str("2024-05-01T10:00:00Z"),
                   Str("0001-01-01T00:00:00Z")}}

AlertsValues ==
    {Absent, Num} \cup {Arr(a) : a \in UNION {[1..n -> AlertValues] : n \in 0..MaxAlerts}}

RuleUniverse ==
    {MkRule(st, l, a) : st \in StateValues, l \in LabelValues, a \in AlertsValues}

\* a group is not an object (-2), an object without a rules array (-1), or
\* an object with an array of n rules
GroupKinds == (0 - 2)..MaxRules

RECURSIVE rulesInShape(_)
rulesInShape(sh) ==
    IF sh = <<>> THEN 0
    ELSE (IF Head(sh) > 0 THEN Head(sh) ELSE 0) + rulesInShape(Tail(sh))

Shapes ==
    UNION {{sh \in [1..k -> GroupKinds] : rulesInShape(sh) <= MaxRules} : k \in 0..MaxGroups}

GroupsOfKind(n) ==
    IF n = 0 - 2 THEN {Num}
    ELSE IF n = 0 - 1 THEN {Obj([name |-> Str("probes")])}
    ELSE {Obj([name |-> Str("probes"), rules |-> Arr(rs)]) : rs \in [1..n -> WalkRules]}

RECURSIVE GroupSeqs(_)
GroupSeqs(sh) ==
    IF sh = <<>> THEN {<<>>}
    ELSE {<<g>> \o rest : g \in GroupsOfKind(Head(sh)), rest \in GroupSeqs(Tail(sh))}

DocOfGroups(gs) == Obj([status |-> Str("success"), data |-> Obj([groups |-> Arr(gs)])])

\* responses that never reach the walk over the groups, and the two
\* transport failures
OddBackends ==
    {Unreachable, BadStatus}
    \cup {Body(j) : j \in
            {Garbage, Num, Null,
             Obj([status |-> Str("success")]),
             Obj([status |-> Str("success"), data |-> Num]),
             Obj([status |-> Str("success"), data |-> Obj([totals |-> Num])]),
             Obj([status |-> Str("success"), data |-> Obj([groups |-> Num])])}}

\* The outcomes of an outbound call come in families: the odd ones, the
\* responses of one group holding one rule of any shape, and for every shape
\* of groups the responses built from WalkRules.
Families == {<<0 - 1>>, <<0 - 2>>} \cup {<<0>> \o sh : sh \in Shapes}

BackendsOf(family) ==
    IF family = <<0 - 1>> THEN OddBackends
    ELSE IF family = <<0 - 2>>
    THEN {Body(DocOfGroups(<<Obj([name |-> Str("probes"), rules |-> Arr(<<r>>)])>>)) :
            r \in RuleUniverse}
    ELSE {Body(DocOfGroups(gs)) : gs \in GroupSeqs(Tail(family))}

Targets == {"web", "db", "gone"}

Routes == {"health", "byTarget", "alerts"}

TargetParams == Targets \cup {""}

ClockReads == Clock \cup {ZeroTime}

GrafanaURLs == {GrafanaUnset, GrafanaBadURL, GrafanaGoodURL}

(***************************************************************************)
(* The web framework and the middleware.                                   *)
(*                                                                         *)
(* A request is served by one goroutine, so its run through the chain is   *)
(* a function of the world x it starts in:                                 *)
(*   x.env     what the world answers: the store's URL, the outcome of the *)
(*             outbound call, the clock, whether the handler panics, the   *)
(*             Encoder a handler under test returns                        *)
(*   x.ctx     the keys of the context.Context at hand                     *)
(*   x.w       the http.ResponseWriter: status (0: header not written),    *)
(*             headers, body                                               *)
(*   x.enc     the Encoder the innermost call returned                     *)
(*   x.panic   a panic is unwinding the stack                              *)
(*   x.values  the web.Values the Logger shares by pointer                 *)
(*   x.expvar, x.prom  the process-wide counters                           *)
(*   x.log, x.obs      log records and metric label sets of this request   *)
(*   x.hcalls, x.bcalls  calls of the route handler, outbound calls        *)
(* A handler is the sequence of its layers, outermost first, ending with   *)
(* the name of the route's handler.                                        *)
(***************************************************************************)
CORSOrigin == "*"

NoBody == [k |-> "none"]
JSONBody(data) == [k |-> "json", data |-> data]
TextBody(text) == [k |-> "text", s |-> text]

NoHeaders ==
    [AllowOrigin |-> "", AllowMethods |-> "", AllowHeaders |-> "",
     ContentType |-> "", Allow |-> ""]

NewWriter == [status |-> 0, headers |-> NoHeaders, body |-> NoBody]

\* http.ResponseWriter.WriteHeader: a second call is superfluous and ignored
WriteHeader(w, code) == IF w.status # 0 THEN w ELSE [w EXCEPT !.status = code]

\* w.Header().Set: a header set after the header was written is not sent
SetHeader(w, name, value) ==
    IF w.status # 0 THEN w ELSE [w EXCEPT !.headers[name] = value]

\* WriteHeader panics on a code outside 100..999
InvalidStatus(code) == code < 100 \/ code > 999

\* http.ResponseWriter.Write: writes the header with 200 if none was written
Write(w, data) == [WriteHeader(w, 200) EXCEPT !.body = data]

\* the Encoders a handler under test may return besides those of the App:
\* an error that is no *errs.Error, one that wraps an *errs.Error, and a
\* JSONResponse whose data json.Marshal rejects
PlainErr == [k |-> "plainerr"]
WrapErr(e) == [k |-> "wraperr", inner |-> e]
BadJSON == [k |-> "badjson"]

\* e.(error) succeeds
IsGoError(e) == e.k \in {"err", "plainerr", "wraperr"}

\* the value has a method HTTPStatus() int
HasHTTPStatus(e) == e.k = "err"

\* json.Marshal of a HealthCheck: the members are named by the json tags;
\* Instance is never set and is omitted; the time is kept as its instant
MarshalCheck(c) ==
    [target |-> c.Target, status |-> c.Status, last_checked |-> c.LastChecked,
     probe |-> c.Probe]

\* json.Marshal of an Alert: activeAt and value are omitted when empty
MarshalAlert(a) ==
    (IF a.ActiveAt = "" THEN <<>> ELSE [activeAt |-> a.ActiveAt])
    @@ (IF a.Value = "" THEN <<>> ELSE [value |-> a.Value])
    @@ [uid |-> "", title |-> a.Title, state |-> a.State, labels |-> a.Labels,
        annotations |-> a.Annotations]

\* json.Marshal of the values the handlers put in a JSONResponse: a nil
\* slice of checks is written as null, an empty slice of alerts as []
Marshal(data) ==
    CASE "Checks" \in DOMAIN data ->
            [total |-> data.Total, healthy |-> data.Healthy, down |-> data.Down,
             unknown |-> data.Unknown,
             checks |-> IF data.Checks = <<>> THEN Null
                        ELSE [i \in 1..Len(data.Checks) |-> MarshalCheck(data.Checks[i])]]
      [] "Alerts" \in DOMAIN data ->
            [total |-> data.Total, firing |-> data.Firing, pending |-> data.Pending,
             normal |-> data.Normal,
             alerts |-> [i \in 1..Len(data.Alerts) |-> MarshalAlert(data.Alerts[i])]]
      [] "Target" \in DOMAIN data -> MarshalCheck(data)
      [] OTHER -> [status |-> data.Status]

\* Encoder.Encode: errs.Error marshals code and message only (FuncName and
\* FileName are tagged json:"-")
Encode(e) ==
    CASE e.k = "json"    -> [ok |-> TRUE, data |-> JSONBody(Marshal(e.data))]
      [] e.k = "err"     -> [ok |-> TRUE,
                             data |-> JSONBody([code |-> e.code, message |-> e.msg])]
      [] e.k = "badjson" -> [ok |-> FALSE, data |-> NoBody]
      [] OTHER           -> [ok |-> TRUE, data |-> TextBody("error")]

\* ErrCode.String
CodeString(c) ==
    IF c \in ErrCodes
    THEN << "OK", "Canceled", "Unknown", "InvalidArgument", "DeadlineExceeded",
            "NotFound", "AlreadyExists", "PermissionDenied", "Unauthenticated",
            "ResourceExhausted", "FailedPrecondition", "Aborted", "OutOfRange",
            "Unimplemented", "Internal", "Unavailable", "DataLoss",
            "InternalOnlyLog" >>[c + 1]
    ELSE "Unknown"

\* debug.Stack() as it appears in a formatted message
StackTrace == "goroutine 1 [running]: runtime/debug.Stack() panics.go:19"

SampleEvery == 1000

RespondAlwaysOK(x) ==
    IF x.enc.k = "nil" THEN [x EXCEPT !.w = WriteHeader(@, 204)]
    ELSE LET e == Encode(x.enc)
             w1 == SetHeader(x.w, "ContentType", "application/json")
         IN  IF ~e.ok THEN [x EXCEPT !.w = WriteHeader(@, 500)]
             ELSE [x EXCEPT !.values.StatusCode = IF "values" \in x.ctx THEN 200 ELSE @,
                            !.w = Write(WriteHeader(w1, 200), e.data)]

\* web.Respond
Respond(x) ==
    IF x.enc.k = "nil" THEN [x EXCEPT !.w = WriteHeader(@, 204)]
    ELSE LET e == Encode(x.enc)
             statusCode == IF HasHTTPStatus(x.enc) THEN HTTPStatus(x.enc.code) ELSE 200
             w1 == SetHeader(x.w, "ContentType", "application/json")
         IN  IF ~e.ok THEN [x EXCEPT !.w = WriteHeader(@, 500)]
             ELSE IF w1.status = 0 /\ InvalidStatus(statusCode)
             THEN [x EXCEPT !.w = w1, !.panic = TRUE]
             ELSE [x EXCEPT !.values.StatusCode =
                                IF "values" \in x.ctx THEN statusCode ELSE @,
                            !.w = Write(WriteHeader(w1, statusCode), e.data)]

\* the route handlers of healthapp and the handler under test; a handler
\* that panics does so before it returns anything
RouteHandler(name, x, r) ==
    LET x1 == [x EXCEPT !.hcalls = @ + 1]
        route == CASE name = "QueryHealthChecks" -> "health"
                   [] name = "QueryHealthCheckByTarget" -> "byTarget"
                   [] name = "QueryAlerts" -> "alerts"
                   [] OTHER -> ""
        enc == CASE route # "" -> Handler(route, x.env.url, x.env.b, r.target, x.env.now)
                 [] name = "Readiness" -> AppReadiness
                 [] name = "Liveness" -> AppLiveness
                 [] OTHER -> x.env.custom
    IN  IF x.env.fault = "panic" THEN [x1 EXCEPT !.panic = TRUE]
        ELSE [x1 EXCEPT !.enc = enc,
                        !.bcalls = IF route = "" THEN @
                                   ELSE @ + HandlerCalls(route, x.env.url, r.target),
                        !.nowRead = ReadsClock(route, enc)]

\* a call returns once and its result is named, as in resp := handler(ctx, r):
\* the value of the one-element set S
The(S) == CHOOSE v \in S : TRUE

RECURSIVE Call(_, _, _)
RECURSIVE wrapMiddleware(_, _, _)
RECURSIVE wrapMiddlewareForward(_, _, _)

\* mid.Logger
Logger(handler, x, r) ==
    LET x1 == [x EXCEPT !.ctx = @ \cup {"values"},
                        !.values = [StatusCode |-> 0],
                        !.log = Append(@, [msg |-> "request started",
                                           method |-> r.method, path |-> r.path])]
    IN  The({ IF y.panic THEN [y EXCEPT !.ctx = x.ctx]
              ELSE [y EXCEPT !.ctx = x.ctx,
                             !.log = Append(@, [msg |-> "request completed",
                                                method |-> r.method, path |-> r.path,
                                                status |-> y.values.StatusCode])] :
              y \in {Call(handler, x1, r)} })

\* errors.As(resp.(error), &appErr): the *errs.Error in the chain, or the
\* generic Internal error when there is none
AsAppErr(e) ==
    CASE e.k = "err"     -> e
      [] e.k = "wraperr" -> e.inner
      [] OTHER           -> Newf(Internal, <<"internal server error">>)

\* log.Error(ctx, "error handling request", ...)
LogError(y, appErr) ==
    [y EXCEPT !.log = Append(@, [msg |-> "error handling request",
                                 code |-> CodeString(appErr.code),
                                 message |-> appErr.msg,
                                 source |-> appErr.site])]

ErrorsKeepInternalOnly(handler, x, r) ==
    The({ IF y.panic \/ ~IsGoError(y.enc) THEN y
          ELSE [LogError(y, AsAppErr(y.enc)) EXCEPT !.enc = AsAppErr(y.enc)] :
          y \in {Call(handler, x, r)} })

\* mid.Errors
Errors(handler, x, r) ==
    The({ IF y.panic \/ ~IsGoError(y.enc) THEN y
          ELSE [LogError(y, AsAppErr(y.enc)) EXCEPT
                   !.enc = IF AsAppErr(y.enc).code = InternalOnlyLog
                           THEN Newf(Internal, <<"internal server error">>)
                           ELSE AsAppErr(y.enc)] :
          y \in {Call(handler, x, r)} })

\* strconv.Itoa of a number that is not negative
RECURSIVE Itoa(_)
Itoa(n) ==
    LET digit == <<"0", "1", "2", "3", "4", "5", "6", "7", "8", "9">>[(n % 10) + 1]
    IN  IF n < 10 THEN digit ELSE Itoa(n \div 10) \o digit

\* the statusCode mid.Prometheus derives from resp
PromStatus(resp) ==
    IF resp.k # "nil" /\ HasHTTPStatus(resp) THEN HTTPStatus(resp.code) ELSE 200

\* the errCode mid.Prometheus derives from resp
PromErrCode(resp) == IF resp.k = "err" THEN CodeString(resp.code) ELSE "unknown"

\* mid.Prometheus
Prometheus(handler, x, r) ==
    The({ IF y.panic THEN y
          ELSE [y EXCEPT
                   !.prom.requests = @ + 1,
                   !.prom.errors = IF PromStatus(y.enc) >= 400 THEN @ + 1 ELSE @,
                   !.obs = @ \o << [metric |-> "duration", method |-> r.method,
                                    path |-> r.path, label |-> ""],
                                   [metric |-> "requests", method |-> r.method,
                                    path |-> r.path,
                                    label |-> Itoa(PromStatus(y.enc))] >>
                             \o IF PromStatus(y.enc) >= 400
                                THEN << [metric |-> "errors", method |-> r.method,
                                         path |-> r.path,
                                         label |-> PromErrCode(y.enc)] >>
                                ELSE << >>] :
          y \in {Call(handler, x, r)} })

\* mid.Metrics with metrics.AddRequests, AddGoroutines and AddErrors
Metrics(handler, x, r) ==
    The({ IF y.panic THEN [y EXCEPT !.ctx = x.ctx]
          ELSE [y EXCEPT
                   !.ctx = x.ctx,
                   !.expvar.requests = @ + 1,
                   !.expvar.goroutines =
                       IF (y.expvar.requests + 1) % SampleEvery = 0
                       THEN x.env.numGoroutine ELSE @,
                   !.expvar.errors = IF IsGoError(y.enc) THEN @ + 1 ELSE @] :
          y \in {Call(handler, [x EXCEPT !.ctx = @ \cup {"metrics"}], r)} })

PanicsUncounted(handler, x, r) ==
    The({ IF ~y.panic THEN y
          ELSE [y EXCEPT !.panic = FALSE,
                         !.enc = Newf(Internal, <<"panic: ", "boom", "\n", StackTrace>>)] :
          y \in {Call(handler, x, r)} })

\* mid.Panics with metrics.AddPanics and PrometheusPanic
Panics(handler, x, r) ==
    The({ IF ~y.panic THEN y
          ELSE [y EXCEPT !.panic = FALSE,
                         !.enc = Newf(Internal, <<"panic: ", "boom", "\n", StackTrace>>),
                         !.expvar.panics = IF "metrics" \in x.ctx THEN @ + 1 ELSE @,
                         !.prom.panics = @ + 1] :
          y \in {Call(handler, x, r)} })

\* mid.Cors
Cors(handler, x, r) ==
    IF "writer" \in x.ctx
    THEN LET x1 == [x EXCEPT !.w =
                        SetHeader(SetHeader(SetHeader(@, "AllowOrigin", CORSOrigin),
                                            "AllowMethods", "GET, POST, PUT, DELETE, OPTIONS"),
                                  "AllowHeaders", "Content-Type, Authorization")]
         IN  IF r.method = "OPTIONS"
             THEN [x1 EXCEPT !.w = WriteHeader(@, 200), !.enc = NilEnc]
             ELSE Call(handler, x1, r)
    ELSE Call(handler, x, r)

\* the function a web.HandlerFunc value stands for
Dispatch(handler, x, r) ==
    CASE Head(handler) = "Logger"     -> Logger(Tail(handler), x, r)
      [] Head(handler) = "Errors"     -> Errors(Tail(handler), x, r)
      [] Head(handler) = "Prometheus" -> Prometheus(Tail(handler), x, r)
      [] Head(handler) = "Metrics"    -> Metrics(Tail(handler), x, r)
      [] Head(handler) = "Panics"     -> Panics(Tail(handler), x, r)
      [] Head(handler) = "Cors"       -> Cors(Tail(handler), x, r)
      [] OTHER                        -> RouteHandler(Head(handler), x, r)

\* calling a web.HandlerFunc with the context and the request it is given:
\* the function is entered, runs, and is left, by return or by a panic
Call(handler, x, r) ==
    The({ [y EXCEPT !.trail = Append(@, <<"exit", Head(handler)>>)] :
          y \in { Dispatch(handler, world, r) :
                  world \in {[x EXCEPT !.trail = Append(@, <<"enter", Head(handler)>>)]} } })

wrapMiddlewareForward(mw, i, handler) ==
    LET k == Len(mw) + 1 - i
    IN  IF i < 1 THEN handler
        ELSE wrapMiddlewareForward(mw, i - 1,
                                   IF mw[k] # "nil" THEN <<mw[k]>> \o handler ELSE handler)

\* web.wrapMiddleware: the loop runs from the last middleware to the first
\* and skips nil entries
wrapMiddleware(mw, i, handler) ==
    IF i < 1 THEN handler
    ELSE wrapMiddleware(mw, i - 1,
                        IF mw[i] # "nil" THEN <<mw[i]>> \o handler ELSE handler)

\* mux.WebAPI: the middleware of the App
AppMiddleware == <<"Logger", "Errors", "Prometheus", "Metrics", "Panics", "Cors">>

\* the handler a route is bound to: hdl wrapped in the route's own middleware
\* and then in the App's
Wrapped(mw, hdl) ==
    wrapMiddleware(AppMiddleware, Len(AppMiddleware), wrapMiddleware(mw, Len(mw), <<hdl>>))

\* App.HandlerFunc: the http.HandlerFunc it registers.  The tracer of the
\* service is never nil, so a span is started, and ended when the closure
\* is left; Respond is given the context of the closure.  A panic that
\* leaves hdl, or Respond, ends in net/http, which aborts the connection
HandlerFunc(hdl, mw, x, r) ==
    The({ [(IF y.panic THEN y ELSE Respond([y EXCEPT !.ctx = {"writer", "trace"}]))
              EXCEPT !.trail = Append(@, <<"exit", "span">>)] :
          y \in {Call(Wrapped(mw, hdl),
                      [x EXCEPT !.ctx = {"writer", "trace"},
                                !.trail = Append(@, <<"enter", "span">>)], r)} })

HandlerFuncNoMidWrapped(hdl, x, r) ==
    The({ IF y.panic THEN y ELSE Respond([y EXCEPT !.ctx = {"writer", "trace"}]) :
          y \in {Call(Wrapped(<<>>, hdl), [x EXCEPT !.ctx = {"writer", "trace"}], r)} })

\* App.HandlerFuncNoMid
HandlerFuncNoMid(hdl, x, r) ==
    The({ IF y.panic THEN y ELSE Respond([y EXCEPT !.ctx = {"writer", "trace"}]) :
          y \in {Call(<<hdl>>, [x EXCEPT !.ctx = {"writer", "trace"}], r)} })

(***************************************************************************)
(* Routing.  A path is the sequence of its segments; a trailing slash is   *)
(* an empty last segment.  http.ServeMux matches the path first: a         *)
(* {wildcard} matches one non-empty segment; a pattern with method GET     *)
(* serves GET and HEAD, and any other method on a matching path is         *)
(* answered by the mux itself with 405.                                    *)
(***************************************************************************)
RouteTable ==
    << [method |-> "GET", pattern |-> <<"api", "v1", "health">>,
        hdl |-> "QueryHealthChecks", mid |-> TRUE, mw |-> <<>>],
       [method |-> "GET", pattern |-> <<"api", "v1", "health", "{target}">>,
        hdl |-> "QueryHealthCheckByTarget", mid |-> TRUE, mw |-> <<>>],
       [method |-> "GET", pattern |-> <<"api", "v1", "alerts">>,
        hdl |-> "QueryAlerts", mid |-> TRUE, mw |-> <<>>],
       [method |-> "GET", pattern |-> <<"liveness">>, hdl |-> "Liveness", mid |-> FALSE, mw |-> <<>>],
       [method |-> "GET", pattern |-> <<"readiness">>, hdl |-> "Readiness", mid |-> FALSE, mw |-> <<>>],
       [method |-> "GET", pattern |-> <<"healthz">>, hdl |-> "Liveness", mid |-> FALSE, mw |-> <<>>] >>

\* a route for a handler under test, registered with App.HandlerFunc and the
\* middleware mw of its own
UnderTestRoute(mw) ==
    [method |-> "GET", pattern |-> <<"api", "v1", "test">>, hdl |-> "UnderTest",
     mid |-> TRUE, mw |-> mw]

PathMatches(pattern, path) ==
    /\ Len(pattern) = Len(path)
    /\ \A i \in 1..Len(path) :
          \/ pattern[i] = path[i]
          \/ pattern[i] = "{target}" /\ path[i] # ""

MethodMatches(pm, method) == method = pm \/ (pm = "GET" /\ method = "HEAD")

\* web.Param(r, "target"): r.PathValue, "" when the pattern has no wildcard
Param(pattern, path) ==
    IF \E i \in 1..Len(pattern) : pattern[i] = "{target}"
    THEN path[CHOOSE i \in 1..Len(pattern) : pattern[i] = "{target}"]
    ELSE ""

\* App.ServeHTTP: the mux dispatches to the registered handler, or answers
\* 404 or 405 itself
ServeHTTP(routes, x, method, path) ==
    LET byPath == {i \in 1..Len(routes) : PathMatches(routes[i].pattern, path)}
        hit == {i \in byPath : MethodMatches(routes[i].method, method)}
    IN  IF byPath = {}
        THEN [x EXCEPT !.w = Write(WriteHeader(@, 404), TextBody("404 page not found"))]
        ELSE IF hit = {}
        THEN [x EXCEPT !.w = Write(WriteHeader(SetHeader(@, "Allow", "GET, HEAD"), 405),
                                   TextBody("Method Not Allowed"))]
        ELSE LET route == routes[CHOOSE i \in hit : TRUE]
                 r == [method |-> method, path |-> path,
                       target |-> Param(route.pattern, path)]
             IN  IF route.mid THEN HandlerFunc(route.hdl, route.mw, x, r)
                 ELSE HandlerFuncNoMid(route.hdl, x, r)

(***************************************************************************)
(* The legacy server (HealthAPIServer): its metrics-by-name route.  The    *)
(* gorilla router matches a {variable} against a non-empty segment, runs   *)
(* the middleware only for a request that matched a route, and answers     *)
(* 404 or 405 itself otherwise.                                            *)
(***************************************************************************)
LegacyMetricsRoute ==
    [method |-> "GET", pattern |-> <<"api", "v1", "metrics", "{metric}">>]

LegacyPathMatches(pattern, path) ==
    /\ Len(pattern) = Len(path)
    /\ \A i \in 1..Len(path) :
          \/ pattern[i] = path[i]
          \/ pattern[i] = "{metric}" /\ path[i] # ""

\* the outcomes of prometheusClient.Query
QueryOutcomes == {"result", "error"}

\* HealthAPIServer.getMetrics: the response, the log and the queries made
getMetrics(w, metricName, q) ==
    IF metricName = ""
    THEN [w |-> Write(WriteHeader(SetHeader(w, "ContentType", "text/plain"), 400),
                      TextBody("Metric name is required")),
          log |-> <<>>, queries |-> 0]
    ELSE IF q = "error"
    THEN [w |-> Write(WriteHeader(SetHeader(w, "ContentType", "text/plain"), 500),
                      TextBody("Error querying Prometheus")),
          log |-> <<[msg |-> "Error querying Prometheus"]>>, queries |-> 1]
    ELSE [w |-> Write(SetHeader(w, "ContentType", "application/json"),
                      JSONBody([metric |-> metricName, result |-> q])),
          log |-> <<>>, queries |-> 1]

\* the CORS middleware HealthAPIServer.Start installs, around getMetrics
LegacyCors(w, method, metricName, q) ==
    LET w1 == SetHeader(SetHeader(SetHeader(w, "AllowOrigin", "*"),
                                  "AllowMethods", "GET, OPTIONS"),
                        "AllowHeaders", "Content-Type")
    IN  IF method = "OPTIONS"
        THEN [w |-> WriteHeader(w1, 200), log |-> <<>>, queries |-> 0]
        ELSE getMetrics(w1, metricName, q)

\* the router of HealthAPIServer.Start on a request for the metrics route
LegacyServeHTTP(method, path, q) ==
    IF ~LegacyPathMatches(LegacyMetricsRoute.pattern, path)
    THEN [w |-> Write(WriteHeader(NewWriter, 404), TextBody("404 page not found")),
          log |-> <<>>, queries |-> 0]
    ELSE IF method # LegacyMetricsRoute.method
    THEN [w |-> WriteHeader(NewWriter, 405), log |-> <<>>, queries |-> 0]
    ELSE LegacyCors(NewWriter, method, path[Len(path)], q)

(***************************************************************************)
(* State.                                                                  *)
(***************************************************************************)
VARIABLES
    grafanaURL,  \* Store.grafanaURL, fixed when the store is constructed
    pc,          \* "idle", or "done" once the operation at hand has returned
    call,        \* the operation at hand: route, target, backend outcome, clock
    ret,         \* the web.Encoder the handler returned
    expvar,      \* the expvar counters of package metrics
    prom,        \* the Prometheus counters, summed over their labels
    served,      \* HTTP requests served since the process came up
    req,         \* the HTTP request at hand and what the world answered it
    out,         \* what the request left: the response, the log, the calls
    run,         \* func run of main: where it stands, the servers, tracing
    conn,        \* a connection of the API server and the request on it, in time
    inflight     \* the goroutines of requests served at the same time

vars == <<grafanaURL, pc, call, ret, expvar, prom, served, req, out, run, conn, inflight>>

http == <<expvar, prom, served, req, out, run, conn, inflight>>

NoCall == [route |-> "", target |-> "", backend |-> NoBackend, now |-> ZeroTime]

NoEnv ==
    [url |-> "", b |-> NoBackend, now |-> ZeroTime, fault |-> "none",
     custom |-> NilEnc, numGoroutine |-> 0]

NoReq ==
    [method |-> "", path |-> <<>>, env |-> NoEnv, underTest |-> FALSE,
     legacy |-> "", query |-> "", mw |-> <<>>]

NoOut ==
    [w |-> NewWriter, aborted |-> FALSE, log |-> <<>>, obs |-> <<>>,
     hcalls |-> 0, bcalls |-> 0, trail |-> <<>>]

\* cfg.Web.ShutdownTimeout, in seconds
ShutdownTimeout == 20

\* connections with a request in flight that one server carries at a time
MaxConns == 2

Servers == {"apiServer", "debugServer"}

\* cfg.Otel.ReporterURI: unset, or the address of a collector
ReporterURIs == {"", "otel-collector:4317"}

Signals == {"SIGINT", "SIGTERM"}

\* cfg.Web.WriteTimeout and the Timeout of the store's http.Client, in seconds
WriteTimeout == 10

ClientTimeout == 30

\* requests the server has in flight at the same time, each on a goroutine
MaxInFlight == 2

Goroutine == 1..MaxInFlight

\* a goroutine that has no request yet
NoGoroutine ==
    [pc |-> "idle", method |-> "", path |-> <<>>, env |-> NoEnv, n |-> 0,
     sampled |-> FALSE, w |-> NewWriter, aborted |-> FALSE]

NoneInFlight == [base |-> 0, g |-> [i \in Goroutine |-> NoGoroutine]]

\* an idle connection
NoConn ==
    [pc |-> "idle", route |-> "", target |-> "", b |-> NoBackend, elapsed |-> 0,
     gone |-> FALSE, status |-> 0, wire |-> "none"]

\* run as it is entered
NewRun(uri) ==
    [pc |-> "start", ReporterURI |-> uri, tracing |-> "none",
     server |-> [srv \in Servers |-> "new"], conns |-> [srv \in Servers |-> 0],
     sig |-> "", elapsed |-> 0, polled |-> FALSE, err |-> ""]

\* run waiting in its select with both servers listening
Serving ==
    [NewRun("") EXCEPT !.pc = "select", !.tracing = "running",
                       !.server = [srv \in Servers |-> "listening"]]

\* requests the process has served before the ones followed here: none, or
\* so many that the goroutine sample is due
ServedBefore == {0, SampleEvery - 1}

Init ==
    /\ grafanaURL \in GrafanaURLs
    /\ pc = "idle"
    /\ call = NoCall
    /\ ret = NilEnc
    /\ \E n \in ServedBefore :
          /\ expvar = [goroutines |-> 0, requests |-> n, errors |-> 0, panics |-> 0]
          /\ prom = [requests |-> n, errors |-> 0, panics |-> 0]
    /\ served = 0
    /\ req = NoReq
    /\ out = NoOut
    /\ run = Serving
    /\ conn = NoConn
    /\ inflight = NoneInFlight

\* A handler of the App is called as a unit, with the backend answering the
\* outbound call (if one is made) in any of the ways of Backends.
CallHandler(route, target, b, now) ==
    /\ (b = NoBackend) <=> (HandlerCalls(route, grafanaURL, target) = 0)
    /\ (route # "byTarget") => target = ""
    /\ LET enc == Handler(route, grafanaURL, b, target, now)
       IN  /\ (now = ZeroTime) <=> ~ReadsClock(route, enc)
           /\ ret' = enc
    /\ call' = [route |-> route, target |-> target, backend |-> b, now |-> now]
    /\ pc' = "done"
    /\ UNCHANGED <<grafanaURL, http>>

\* the handler has returned; its values are dropped
Return ==
    /\ pc = "done"
    /\ pc' = "idle"
    /\ call' = NoCall
    /\ ret' = NilEnc
    /\ UNCHANGED <<grafanaURL, http>>

NextApp ==
    \/ /\ pc = "idle"
       /\ \/ \E route \in Routes, target \in TargetParams, now \in ClockReads :
                CallHandler(route, target, NoBackend, now)
          \/ \E family \in Families : \E b \in BackendsOf(family) :
                \E route \in Routes, target \in TargetParams, now \in ClockReads :
                    CallHandler(route, target, b, now)
    \/ Return

\* the handlers are called in a process that has served no request yet
InitApp == Init /\ expvar.requests = 0

SpecApp == InitApp /\ [][NextApp]_vars

(***************************************************************************)
(* The HTTP server: requests are served one at a time here.                *)
(***************************************************************************)
Methods == {"GET", "OPTIONS", "POST"}

MetricNames == {"", "up"}

MetricPaths == {<<"api", "v1", "metrics", m>> : m \in MetricNames}

Paths ==
    { <<"api", "v1", "health">>, <<"api", "v1", "alerts">>,
      <<"liveness">>, <<"readiness">>, <<"healthz">>, <<"metrics">> }
    \cup {<<"api", "v1", "health", t>> : t \in TargetParams}
    \cup MetricPaths

\* the outcomes of the outbound call a served request may meet
ServedGroups ==
    {<<>>}
    \cup {<<Obj([name |-> Str("probes")])>>,
          <<Obj([name |-> Str("probes"), rules |-> Num])>>,
          <<Obj([name |-> Str("probes"), rules |-> Arr(<<>>)])>>}
    \cup {<<Obj([name |-> Str("probes"), rules |-> Arr(<<r>>)])>> : r \in WalkRules}
    \cup {<<Obj([name |-> Str("probes"), rules |-> Arr(<<r, q>>)])>> :
             r \in WalkRules, q \in WalkRules}

ServedBackends == OddBackends \cup {Body(DocOfGroups(gs)) : gs \in ServedGroups}

Faults == {"none", "panic"}

\* runtime.NumGoroutine() when it is sampled
Goroutines == {7, 8}

\* an ErrCode outside the declared ones
UndeclaredCode == InternalOnlyLog + 1

\* what a handler under test returns
UnderTestEncoders ==
    {NilEnc, JSONResponse([Status |-> "ok"]), BadJSON, PlainErr}
    \cup {Newf(c, <<"db password rejected">>) : c \in ErrCodes \cup {UndeclaredCode}}
    \cup {WrapErr(Newf(c, <<"db password rejected">>)) : c \in {NotFound, InternalOnlyLog}}

\* the middleware a route under test is registered with
UnderTestMiddleware == {<<>>, <<"nil">>, <<"Panics", "nil", "Cors">>}

\* the world a request starts in
World(env) ==
    [env |-> env, ctx |-> {}, w |-> NewWriter, enc |-> NilEnc, panic |-> FALSE,
     values |-> [StatusCode |-> 0], expvar |-> expvar, prom |-> prom,
     log |-> <<>>, obs |-> <<>>, hcalls |-> 0, bcalls |-> 0, nowRead |-> FALSE,
     trail |-> <<>>]

\* the server runs a request through the mux; the world answers only what
\* the run asks of it.  A panic that reaches net/http aborts the connection.
ServeRequest(routes, underTest, mw, method, path, env) ==
    \E y \in {ServeHTTP(routes, World(env), method, path)} :
        /\ (env.b = NoBackend) <=> (y.bcalls = 0)
        /\ (env.now = ZeroTime) <=> ~y.nowRead
        /\ (env.fault # "none") => y.hcalls > 0
        /\ (env.numGoroutine = 0) <=>
              ~(y.expvar.requests # expvar.requests
                /\ y.expvar.requests % SampleEvery = 0)
        /\ req' = [method |-> method, path |-> path, env |-> env,
                   underTest |-> underTest, legacy |-> "", query |-> "", mw |-> mw]
        /\ out' = [w |-> y.w, aborted |-> y.panic, log |-> y.log, obs |-> y.obs,
                   hcalls |-> y.hcalls, bcalls |-> y.bcalls, trail |-> y.trail]
        /\ expvar' = y.expvar
        /\ prom' = y.prom
        /\ served' = served + 1
        /\ pc' = "done"
        /\ UNCHANGED <<grafanaURL, call, ret, run, conn, inflight>>

\* a request to the service as mux.WebAPI builds it
Serve(method, path, b, now, fault, g) ==
    ServeRequest(RouteTable, FALSE, <<>>, method, path,
                 [url |-> grafanaURL, b |-> b, now |-> now, fault |-> fault,
                  custom |-> NilEnc, numGoroutine |-> g])

\* a request to a handler under test that is registered with the same App
ServeUnderTest(mw, custom, fault, g) ==
    ServeRequest(Append(RouteTable, UnderTestRoute(mw)), TRUE, mw, "GET",
                 UnderTestRoute(mw).pattern,
                 [url |-> grafanaURL, b |-> NoBackend, now |-> ZeroTime,
                  fault |-> fault, custom |-> custom, numGoroutine |-> g])

\* a request for the metrics route of the legacy server
ServeLegacy(method, path, q) ==
    \E y \in {LegacyServeHTTP(method, path, q)} :
        /\ (q = "") <=> (y.queries = 0)
        /\ req' = [method |-> method, path |-> path, env |-> NoEnv,
                   underTest |-> FALSE, legacy |-> "HealthAPIServer", query |-> q,
                   mw |-> <<>>]
        /\ out' = [w |-> y.w, aborted |-> FALSE, log |-> y.log, obs |-> <<>>,
                   hcalls |-> 0, bcalls |-> y.queries, trail |-> <<>>]
        /\ served' = served + 1
        /\ pc' = "done"
        /\ UNCHANGED <<grafanaURL, call, ret, expvar, prom, run, conn, inflight>>

\* the response is on the wire; the request's values are dropped
Finish ==
    /\ pc = "done"
    /\ pc' = "idle"
    /\ req' = NoReq
    /\ out' = NoOut
    /\ UNCHANGED <<grafanaURL, call, ret, expvar, prom, served, run, conn, inflight>>

Next ==
    \/ /\ pc = "idle"
       /\ served < MaxRequests
       /\ \/ \E method \in Methods, path \in Paths, b \in ServedBackends \cup {NoBackend},
                 now \in ClockReads, fault \in Faults, g \in Goroutines \cup {0} :
                   Serve(method, path, b, now, fault, g)
          \/ \E mw \in UnderTestMiddleware, custom \in UnderTestEncoders,
                 fault \in Faults, g \in Goroutines \cup {0} :
                   ServeUnderTest(mw, custom, fault, g)
          \/ \E method \in Methods, path \in MetricPaths, q \in QueryOutcomes \cup {""} :
                   ServeLegacy(method, path, q)
    \/ Finish

Spec == Init /\ [][Next]_vars

(***************************************************************************)
(* func run of main, from the initialisation of tracing to its return.     *)
(* The two servers accept connections and finish requests on goroutines of *)
(* their own; time is counted in seconds from the moment the shutdown      *)
(* context is made.                                                        *)
(***************************************************************************)
InitRun ==
    /\ grafanaURL \in GrafanaURLs
    /\ pc = "idle"
    /\ call = NoCall
    /\ ret = NilEnc
    /\ expvar = [goroutines |-> 0, requests |-> 0, errors |-> 0, panics |-> 0]
    /\ prom = [requests |-> 0, errors |-> 0, panics |-> 0]
    /\ served = 0
    /\ req = NoReq
    /\ out = NoOut
    /\ \E uri \in ReporterURIs : run = NewRun(uri)
    /\ conn = NoConn
    /\ inflight = NoneInFlight

service == <<grafanaURL, pc, call, ret, expvar, prom, served, req, out, conn, inflight>>

ReturnFromRunUndeferred(r, err) == [r EXCEPT !.pc = "returned", !.err = err]

\* a return statement of run: the deferred shutdown(ctx) of line 120 runs
\* when tracing was initialised, then run is left
ReturnFromRun(r, err) ==
    [r EXCEPT !.pc = "returned", !.err = err,
              !.tracing = IF @ = "running" THEN "shutdown" ELSE @]

\* http.Server.Shutdown as it is entered: the listener is closed, and the
\* first look at the connections finds them idle or not
BeginShutdown(r, srv) ==
    [r EXCEPT !.server[srv] = IF @ = "listening" THEN "draining" ELSE @,
              !.polled = r.conns[srv] > 0]

\* otel.InitTracing: without a reporter URI a no-op tracer and a shutdown
\* function that does nothing; with one, the exporter may fail to be made
InitTracing(ok) ==
    /\ run.pc = "start"
    /\ (run.ReporterURI = "") => ok
    /\ run' = IF ok THEN [run EXCEPT !.pc = "startServers", !.tracing = "running"]
              ELSE ReturnFromRun(run, "initializing tracing")
    /\ UNCHANGED service

\* the goroutines of lines 137-141 and 176-179: ListenAndServe listens, or
\* fails and returns its error
StartServers(apiOK, debugOK) ==
    /\ run.pc = "startServers"
    /\ run' = [run EXCEPT !.pc = "select",
                          !.server = [apiServer |-> IF apiOK THEN "listening" ELSE "failed",
                                      debugServer |-> IF debugOK THEN "listening"
                                                     ELSE "failed"]]
    /\ UNCHANGED service

\* a listening server accepts a connection and starts on its request
Accept(srv) ==
    /\ run.server[srv] = "listening"
    /\ run.conns[srv] < MaxConns
    /\ run' = [run EXCEPT !.conns[srv] = @ + 1]
    /\ UNCHANGED service

\* a request in flight is answered and its connection goes idle
Complete(srv) ==
    /\ run.pc # "returned"
    /\ run.conns[srv] > 0
    /\ run' = [run EXCEPT !.conns[srv] = @ - 1]
    /\ UNCHANGED service

\* case err := <-serverErrors
ServerError ==
    /\ run.pc = "select"
    /\ run.server["apiServer"] = "failed"
    /\ run' = ReturnFromRun(run, "server error")
    /\ UNCHANGED service

\* case sig := <-shutdownChan, up to the call of apiServer.Shutdown(ctx)
Signal(sig) ==
    /\ run.pc = "select"
    /\ run' = BeginShutdown([run EXCEPT !.pc = "apiServer", !.sig = sig, !.elapsed = 0],
                            "apiServer")
    /\ UNCHANGED service

\* a second passes while a Shutdown waits
Tick ==
    /\ run.pc \in Servers
    /\ run.elapsed < ShutdownTimeout
    /\ run' = [run EXCEPT !.elapsed = @ + 1]
    /\ UNCHANGED service

\* Shutdown finds every connection idle and returns nil: after the API
\* server run goes on to debugServer.Shutdown(ctx), after the debug server
\* it returns nil
Drained(srv) ==
    /\ run.pc = srv
    /\ run.conns[srv] = 0
    /\ run' = IF srv = "apiServer"
              THEN BeginShutdown([run EXCEPT !.pc = "debugServer",
                                             !.server[srv] = "stopped"], "debugServer")
              ELSE ReturnFromRun([run EXCEPT !.server[srv] = "stopped"], "")
    /\ UNCHANGED service

DeadlineClosesBoth(srv) ==
    /\ run.pc = srv
    /\ run.polled
    /\ run.elapsed = ShutdownTimeout
    /\ run' = ReturnFromRun([run EXCEPT !.server = [s \in Servers |-> "closed"],
                                       !.conns = [s \in Servers |-> 0]],
                            "could not stop " \o srv \o " gracefully")
    /\ UNCHANGED service

\* the context is done while Shutdown waits for connections: it returns the
\* context's error, the server is closed with its connections, run returns
Deadline(srv) ==
    /\ run.pc = srv
    /\ run.polled
    /\ run.elapsed = ShutdownTimeout
    /\ run' = ReturnFromRun([run EXCEPT !.server[srv] = "closed", !.conns[srv] = 0],
                     "could not stop " \o srv \o " gracefully")
    /\ UNCHANGED service

NextRun ==
    \/ \E ok \in BOOLEAN : InitTracing(ok)
    \/ \E apiOK \in BOOLEAN, debugOK \in BOOLEAN : StartServers(apiOK, debugOK)
    \/ \E srv \in Servers : Accept(srv)
    \/ \E srv \in Servers : Complete(srv)
    \/ ServerError
    \/ \E sig \in Signals : Signal(sig)
    \/ Tick
    \/ \E srv \in Servers : Drained(srv)
    \/ \E srv \in Servers : Deadline(srv)

SpecRun == InitRun /\ [][NextRun]_vars

(***************************************************************************)
(* One request of the main group in time.  The write deadline of the       *)
(* connection is set WriteTimeout after the request's header is read; the  *)
(* outbound call of the store waits for the backend under the client's     *)
(* Timeout and the request's context, which is cancelled when the client   *)
(* closes the connection.  Seconds are counted from the reading of the     *)
(* header.                                                                 *)
(***************************************************************************)
InitCall ==
    /\ grafanaURL \in GrafanaURLs
    /\ pc = "idle"
    /\ call = NoCall
    /\ ret = NilEnc
    /\ expvar = [goroutines |-> 0, requests |-> 0, errors |-> 0, panics |-> 0]
    /\ prom = [requests |-> 0, errors |-> 0, panics |-> 0]
    /\ served = 0
    /\ req = NoReq
    /\ out = NoOut
    /\ run = Serving
    /\ conn = NoConn
    /\ inflight = NoneInFlight

rest == <<grafanaURL, pc, call, ret, expvar, prom, served, req, out, run, inflight>>

\* what the backend sends when it answers
Answers == {Unreachable, BadStatus, Body(DocOfGroups(<<>>))}

\* the server reads the header of a GET for a main-group route
ReadRequest(route, target) ==
    /\ conn.pc = "idle"
    /\ (route = "byTarget") <=> (target # "")
    /\ conn' = [NoConn EXCEPT !.pc = "handler", !.route = route, !.target = target]
    /\ UNCHANGED rest

\* the handler runs up to httpClient.Do, or to its end when it makes no call
EnterStore ==
    /\ conn.pc = "handler"
    /\ conn' = [conn EXCEPT !.pc = IF HandlerCalls(conn.route, grafanaURL, conn.target) = 0
                                   THEN "respond" ELSE "calling"]
    /\ UNCHANGED rest

\* a second passes while httpClient.Do waits
Wait ==
    /\ conn.pc = "calling"
    /\ conn.elapsed < ClientTimeout
    /\ conn' = [conn EXCEPT !.elapsed = @ + 1]
    /\ UNCHANGED rest

\* the backend answers, or the call fails in transport
BackendAnswers(b) ==
    /\ conn.pc = "calling"
    /\ conn' = [conn EXCEPT !.pc = "respond", !.b = b]
    /\ UNCHANGED rest

\* http.Client.Timeout: Do returns an error
ClientTimesOut ==
    /\ conn.pc = "calling"
    /\ conn.elapsed = ClientTimeout
    /\ conn' = [conn EXCEPT !.pc = "respond", !.b = Unreachable]
    /\ UNCHANGED rest

\* the client closes the connection: the request's context is cancelled and
\* Do returns its error
ClientCloses ==
    /\ conn.pc = "calling"
    /\ conn' = [conn EXCEPT !.pc = "respond", !.b = Unreachable, !.gone = TRUE]
    /\ UNCHANGED rest

\* the handler returns, Respond writes status and body into the buffer of
\* the connection, and the server flushes it: past the write deadline, or
\* with the client gone, the write fails and the connection is closed
\* with nothing sent
RespondAndFlush ==
    /\ conn.pc = "respond"
    /\ \E now \in Clock :
       \E enc \in {Handler(conn.route, grafanaURL, conn.b, conn.target, now)} :
          conn' = [conn EXCEPT !.pc = "done",
                               !.status = IF HasHTTPStatus(enc) THEN HTTPStatus(enc.code)
                                          ELSE 200,
                               !.wire = IF conn.gone \/ conn.elapsed >= WriteTimeout
                                        THEN "closed" ELSE "response"]
    /\ UNCHANGED rest

\* the connection is idle again
Release ==
    /\ conn.pc = "done"
    /\ conn' = NoConn
    /\ UNCHANGED rest

NextCall ==
    \/ \E route \in Routes, target \in {"", "web"} : ReadRequest(route, target)
    \/ EnterStore
    \/ Wait
    \/ \E b \in Answers : BackendAnswers(b)
    \/ ClientTimesOut
    \/ ClientCloses
    \/ RespondAndFlush
    \/ Release

\* goroutines that can run do run, and timers fire; the backend and the
\* client owe nothing
SpecCall ==
    /\ InitCall
    /\ [][NextCall]_vars
    /\ WF_vars(EnterStore)
    /\ WF_vars(Wait)
    /\ WF_vars(ClientTimesOut)
    /\ WF_vars(RespondAndFlush)

(***************************************************************************)
(* Requests of the main group served at the same time.  net/http runs      *)
(* every request on a goroutine of its own; what the goroutines share is   *)
(* the expvar and Prometheus counters, and every Add, Value and Set on     *)
(* them is one atomic step.  The rest of a request's run touches nothing   *)
(* shared and is taken in two steps, the handler below mid.Metrics and the *)
(* middleware above it with Respond.                                       *)
(***************************************************************************)
\* the counter values the process may have reached before the requests
\* followed here: base requests, of which none failed
CounterBases == {0, SampleEvery - 2, SampleEvery - 1}

InitConc ==
    /\ grafanaURL = GrafanaGoodURL
    /\ pc = "idle"
    /\ call = NoCall
    /\ ret = NilEnc
    /\ served = 0
    /\ req = NoReq
    /\ out = NoOut
    /\ run = Serving
    /\ conn = NoConn
    /\ \E n \in CounterBases :
          /\ expvar = [goroutines |-> 0, requests |-> n, errors |-> 0, panics |-> 0]
          /\ prom = [requests |-> n, errors |-> 0, panics |-> 0]
          /\ inflight = [NoneInFlight EXCEPT !.base = n]

others == <<grafanaURL, pc, call, ret, served, req, out, run, conn>>

\* expvar.Int.Add
IntAddTwice(v, delta) == v + delta + delta

IntAdd(v, delta) == v + delta

RunAloneSharedState(g) ==
    ServeHTTP(RouteTable, World([g.env EXCEPT !.b = inflight.g[1].env.b]), g.method, g.path)

\* the run of a request through the chain as one goroutine alone would make
\* it, from the counters as they stand
RunAlone(g) == ServeHTTP(RouteTable, World(g.env), g.method, g.path)

\* the handler of the request panics and mid.Panics recovers it
PanickedNever(g) == FALSE

Panicked(g) == RunAlone(g).expvar.panics > expvar.panics

\* checkIsError(resp) in mid.Metrics
CountsAsError(g) == RunAlone(g).expvar.errors > expvar.errors

\* where mid.Metrics goes on once AddRequests and the sample are behind it
AfterSample(g) == IF CountsAsError(g) THEN "AddErrors" ELSE "Respond"

\* the server reads a GET of a main-group route and starts its goroutine
StartRequest(i, path, b, now, fault) ==
    /\ inflight.g[i].pc = "idle"
    /\ \E e \in {[url |-> grafanaURL, b |-> b, now |-> now, fault |-> fault,
                   custom |-> NilEnc, numGoroutine |-> 0]} :
       \E y \in {ServeHTTP(RouteTable, World(e), "GET", path)} :
          /\ (b = NoBackend) <=> (y.bcalls = 0)
          /\ (now = ZeroTime) <=> ~y.nowRead
          /\ (fault # "none") => y.hcalls > 0
          /\ inflight' = [inflight EXCEPT !.g[i] =
                              [NoGoroutine EXCEPT !.pc = "handler", !.method = "GET",
                                                  !.path = path, !.env = e]]
    /\ UNCHANGED <<others, expvar, prom>>

\* the chain below mid.Metrics runs: mid.Panics counts a panic it recovers
\* (metrics.AddPanics, PrometheusPanic)
HandlerReturns(i) ==
    /\ inflight.g[i].pc = "handler"
    /\ \E p \in {Panicked(inflight.g[i])} :
          /\ expvar' = [expvar EXCEPT !.panics = IF p THEN IntAdd(@, 1) ELSE @]
          /\ prom' = [prom EXCEPT !.panics = IF p THEN IntAdd(@, 1) ELSE @]
    /\ inflight' = [inflight EXCEPT !.g[i].pc = "AddRequests"]
    /\ UNCHANGED others

\* v.requests.Add(1) of metrics.AddRequests
RequestsAdd(i) ==
    /\ inflight.g[i].pc = "AddRequests"
    /\ expvar' = [expvar EXCEPT !.requests = IntAdd(@, 1)]
    /\ inflight' = [inflight EXCEPT !.g[i].pc = "Value"]
    /\ UNCHANGED <<others, prom>>

\* return v.requests.Value() of metrics.AddRequests, and n%1000 == 0
RequestsValue(i) ==
    /\ inflight.g[i].pc = "Value"
    /\ inflight' = [inflight EXCEPT
                        !.g[i].n = expvar.requests,
                        !.g[i].pc = IF expvar.requests % SampleEvery = 0
                                    THEN "AddGoroutines" ELSE AfterSample(inflight.g[i])]
    /\ UNCHANGED <<others, expvar, prom>>

\* metrics.AddGoroutines
AddGoroutines(i, numGoroutine) ==
    /\ inflight.g[i].pc = "AddGoroutines"
    /\ expvar' = [expvar EXCEPT !.goroutines = numGoroutine]
    /\ inflight' = [inflight EXCEPT !.g[i].sampled = TRUE,
                                    !.g[i].pc = AfterSample(inflight.g[i])]
    /\ UNCHANGED <<others, prom>>

\* metrics.AddErrors
AddErrors(i) ==
    /\ inflight.g[i].pc = "AddErrors"
    /\ expvar' = [expvar EXCEPT !.errors = IntAdd(@, 1)]
    /\ inflight' = [inflight EXCEPT !.g[i].pc = "Respond"]
    /\ UNCHANGED <<others, prom>>

\* mid.Prometheus, mid.Errors and mid.Logger on the way out, then Respond
RespondInFlight(i) ==
    /\ inflight.g[i].pc = "Respond"
    /\ \E y \in {RunAlone(inflight.g[i])} :
          /\ prom' = [prom EXCEPT
                          !.requests = IntAdd(@, y.prom.requests - prom.requests),
                          !.errors = IntAdd(@, y.prom.errors - prom.errors)]
          /\ inflight' = [inflight EXCEPT !.g[i].pc = "done", !.g[i].w = y.w,
                                          !.g[i].aborted = y.panic]
    /\ UNCHANGED <<others, expvar>>

\* what the backend answers the requests served at the same time
InFlightBackends ==
    {NoBackend, Unreachable, Body(DocOfGroups(<<>>)),
     Body(DocOfGroups(<<Obj([name |-> Str("probes"),
                             rules |-> Arr(<<MkRule(Str("firing"),
                                                    MkLabels(Str("web"), Str("blackbox")),
                                                    Absent)>>)])>>))}

NextConc ==
    \/ \E i \in Goroutine, path \in {<<"api", "v1", "health">>, <<"api", "v1", "alerts">>},
           b \in InFlightBackends, now \in ClockReads, fault \in Faults :
             StartRequest(i, path, b, now, fault)
    \/ \E i \in Goroutine : HandlerReturns(i)
    \/ \E i \in Goroutine : RequestsAdd(i)
    \/ \E i \in Goroutine : RequestsValue(i)
    \/ \E i \in Goroutine, numGoroutine \in Goroutines : AddGoroutines(i, numGoroutine)
    \/ \E i \in Goroutine : AddErrors(i)
    \/ \E i \in Goroutine : RespondInFlight(i)

SpecConc == InitConc /\ [][NextConc]_vars

(***************************************************************************)
(* What the properties say about a rule-state response, stated on the      *)
(* response itself: the positions <<group, rule>> of its rules, their      *)
(* order, and the target, state and probe a rule carries.                  *)
(***************************************************************************)
Field(j, key) == IF j.t = "obj" /\ key \in DOMAIN j.o THEN j.o[key] ELSE Absent

Items(j) == IF j.t = "arr" THEN j.a ELSE <<>>

\* the response was fetched and decoded
Fetched == call.backend.kind = "body" /\ call.backend.json.t \in {"obj", "null"}

RespGroups ==
    IF call.backend.kind = "body"
    THEN Items(Field(Field(call.backend.json, "data"), "groups"))
    ELSE <<>>

RulePositions ==
    {p \in (1..MaxGroups + 1) \X (1..MaxRules + 1) :
        /\ p[1] <= Len(RespGroups)
        /\ p[2] <= Len(Items(Field(RespGroups[p[1]], "rules")))}

RuleAt(p) == Items(Field(RespGroups[p[1]], "rules"))[p[2]]

Before(p, q) == p[1] < q[1] \/ (p[1] = q[1] /\ p[2] < q[2])

TargetOf(p) ==
    LET v == Field(Field(RuleAt(p), "labels"), "target")
    IN  IF v.t = "str" THEN v.s ELSE ""

ProbeOf(p) ==
    LET v == Field(Field(RuleAt(p), "labels"), "probe")
    IN  IF v.t = "str" THEN v.s ELSE ""

StateOf(p) == Field(RuleAt(p), "state")

\* the rules that are health-check rules: they carry a non-empty target
Retained == {p \in RulePositions : TargetOf(p) # ""}

Rank(p) == 1 + Cardinality({q \in Retained : Before(q, p)})

Carrying(t) == {p \in RulePositions : TargetOf(p) = t}

ExpectedStatus(state) ==
    IF state = Str("firing") THEN "down"
    ELSE IF state = Str("pending") THEN "unknown"
    ELSE "healthy"

Returned(route) == pc = "done" /\ call.route = route

\* C1: every HealthSummary the business layer returns has total = len(checks)
\* and healthy + down + unknown = total.
C1_SummaryCounts ==
    (Returned("health") /\ ret.k = "json") =>
        /\ ret.data.Total = Len(ret.data.Checks)
        /\ ret.data.Healthy + ret.data.Down + ret.data.Unknown = ret.data.Total

C1_Witness ==
    /\ Returned("health") /\ ret.k = "json"
    /\ ret.data.Healthy = 1 /\ ret.data.Down = 1 /\ ret.data.Unknown = 1

\* C2: every AlertSummary has total = len(alerts); firing, pending and normal
\* count the alerts of exactly that state; an alert of any other state is in
\* alerts and in total and in none of the three counters.
AlertsInState(st) ==
    Cardinality({i \in 1..Len(ret.data.Alerts) : ret.data.Alerts[i].State = st})

C2_AlertCounts ==
    (Returned("alerts") /\ ret.k = "json") =>
        /\ ret.data.Total = Len(ret.data.Alerts)
        /\ ret.data.Total = Cardinality({p \in RulePositions : RuleAt(p).t = "obj"})
        /\ ret.data.Firing = AlertsInState("firing")
        /\ ret.data.Pending = AlertsInState("pending")
        /\ ret.data.Normal = AlertsInState("normal")
        /\ ret.data.Firing + ret.data.Pending + ret.data.Normal <= ret.data.Total

C2_Witness ==
    /\ Returned("alerts") /\ ret.k = "json"
    /\ ret.data.Total = 1
    /\ ret.data.Alerts[1].State = "paused"
    /\ ret.data.Firing + ret.data.Pending + ret.data.Normal = 0

\* C3: the status of a projected HealthCheck is decided by the rule's state
\* alone, in QueryHealthChecks and in QueryHealthCheckByTarget: "firing" is
\* down, "pending" is unknown, anything else (a missing or non-string state
\* too) is healthy, whatever the labels and alerts of the rule are.
C3_StatusOfState ==
    /\ (Returned("health") /\ ret.k = "json") =>
          \A p \in Retained :
              /\ Rank(p) <= Len(ret.data.Checks)
              /\ ret.data.Checks[Rank(p)].Status = ExpectedStatus(StateOf(p))
    /\ (Returned("byTarget") /\ ret.k = "json") =>
          \E p \in Carrying(call.target) :
              /\ \A q \in Carrying(call.target) : ~Before(q, p)
              /\ ret.data.Status = ExpectedStatus(StateOf(p))

C3_Witness ==
    /\ Returned("byTarget") /\ ret.k = "json"
    /\ ret.data.Status = "healthy"
    /\ \E p \in RulePositions :
          /\ StateOf(p) = Str("paused")
          /\ Len(Items(Field(RuleAt(p), "alerts"))) = 2

\* C4: in QueryHealthChecks a rule without a target label (or with an empty
\* or non-string one) is left out, the other rules are returned in order,
\* and the call does not fail.
C4_MissingTargetSkipped ==
    (Returned("health") /\ Fetched) =>
        /\ ret.k = "json"
        /\ Len(ret.data.Checks) = Cardinality(Retained)
        /\ \A p \in Retained : ret.data.Checks[Rank(p)].Target = TargetOf(p)

C4_Witness ==
    /\ Returned("health") /\ ret.k = "json"
    /\ Len(ret.data.Checks) = 2
    /\ \E p \in RulePositions \ Retained, q \in Retained :
          RuleAt(p).t = "obj" /\ Before(p, q)

\* C5: QueryHealthCheckByTarget with a target no rule carries fails with a
\* NotFound error (HTTP 404); with a target some rule carries it returns the
\* check projected from the first such rule in group-then-rule order.
C5_ByTarget ==
    (Returned("byTarget") /\ call.target # "") =>
        IF Carrying(call.target) = {} \/ ~Fetched
        THEN ret.k = "err" /\ ret.code = NotFound /\ HTTPStatus(ret.code) = 404
        ELSE \E p \in Carrying(call.target) :
                /\ \A q \in Carrying(call.target) : ~Before(q, p)
                /\ ret.k = "json"
                /\ ret.data.Target = call.target
                /\ ret.data.Status = ExpectedStatus(StateOf(p))
                /\ ret.data.Probe = ProbeOf(p)

C5_Witness ==
    /\ Returned("byTarget") /\ ret.k = "json"
    /\ ret.data.Status = "down"
    /\ \E p, q \in Carrying(call.target) :
          /\ p[1] < q[1] /\ p[2] > q[2]
          /\ StateOf(q) = Str("normal")

(***************************************************************************)
(* What the properties say about a served request.                         *)
(***************************************************************************)
MainPaths ==
    {<<"api", "v1", "health">>, <<"api", "v1", "alerts">>}
    \cup {<<"api", "v1", "health", t>> : t \in Targets}

ProbePaths == {<<"liveness">>, <<"readiness">>}

Served == pc = "done" /\ req # NoReq

\* the request ran through the middleware of the App
InPipeline == Served /\ req.legacy = "" /\ Len(out.log) > 0

\* the handler of a main-group route panicked
PanickedInMain == Served /\ req.path \in MainPaths /\ req.env.fault = "panic"

\* the response is a JSON document whose members are exactly code and message
ErrorBody(w) == w.body.k = "json" /\ DOMAIN w.body.data = {"code", "message"}

CorsHeadersSet(w) ==
    /\ w.headers.AllowOrigin = CORSOrigin
    /\ w.headers.AllowMethods # ""
    /\ w.headers.AllowHeaders # ""

\* the parts of a message are on a log record of the request
Logged(msg) == \E i \in 1..Len(out.log) :
                  "message" \in DOMAIN out.log[i] /\ out.log[i].message = msg

\* the value the handler under test hands to the Errors middleware: what the
\* layers below Errors return for the request
BelowErrors ==
    LET r == [method |-> req.method, path |-> req.path, target |-> ""]
        x == [World(req.env) EXCEPT !.ctx = {"writer", "trace", "values"}]
    IN  Call(Tail(Tail(Wrapped(req.mw, "UnderTest"))), x, r).enc

\* C6: when the handler of a main-group route panics, the request still
\* completes: the connection is not aborted, the response is 500 with a JSON
\* error body of kind Internal, and the expvar panic counter and the
\* Prometheus panic counter have each gone up by exactly 1 over the request.
C6_PanicRecovered ==
    [][PanickedInMain' =>
          /\ ~out'.aborted
          /\ out'.w.status = 500
          /\ out'.w.headers.ContentType = "application/json"
          /\ ErrorBody(out'.w)
          /\ out'.w.body.data.code = Internal
          /\ expvar'.panics = expvar.panics + 1
          /\ prom'.panics = prom.panics + 1]_vars

C6_Witness ==
    /\ PanickedInMain
    /\ req.path = <<"api", "v1", "health", "web">>
    /\ out.w.status = 500
    /\ expvar.panics = 1

\* C7: every failure response the main pipeline writes is a JSON body with
\* only code and message, and the message holds no stack trace.
C7_NoStackTraceInBody ==
    (InPipeline /\ ~out.aborted /\ out.w.status >= 400) =>
        /\ ErrorBody(out.w)
        /\ \A i \in 1..Len(out.w.body.data.message) :
              out.w.body.data.message[i] # StackTrace

\* C8: an OPTIONS request to a main-group route is answered 200 with no body
\* and the CORS headers, and the route's handler is not called.
C8_Preflight ==
    (Served /\ req.method = "OPTIONS" /\ req.path \in MainPaths) =>
        /\ out.w.status = 200
        /\ out.w.body = NoBody
        /\ CorsHeadersSet(out.w)
        /\ out.hcalls = 0

\* C9: with the backend URL unset, a GET of /api/v1/health, /api/v1/alerts or
\* /api/v1/health/{target} is answered 503, and a GET of /liveness or
\* /readiness is answered 200.
C9_UnsetURLUnavailable ==
    (Served /\ grafanaURL = GrafanaUnset /\ req.method = "GET"
        /\ req.env.fault = "none") =>
        /\ req.path \in MainPaths => out.w.status = 503
        /\ req.path \in ProbePaths => out.w.status = 200

\* C10: no response of the main pipeline carries the code InternalOnlyLog;
\* when the value returned below the Errors middleware is an error of kind
\* InternalOnlyLog, the response is the generic Internal error, whose message
\* is not the original one, and the original message is on the log.
C10_InternalOnlyLogHidden ==
    /\ (InPipeline /\ ~out.aborted /\ ErrorBody(out.w)) =>
           out.w.body.data.code # InternalOnlyLog
    /\ (InPipeline /\ req.underTest /\ BelowErrors.k = "err"
           /\ BelowErrors.code = InternalOnlyLog) =>
           /\ ~out.aborted
           /\ out.w.status = 500
           /\ out.w.body = JSONBody([code |-> Internal,
                                     message |-> <<"internal server error">>])
           /\ out.w.body.data.message # BelowErrors.msg
           /\ Logged(BelowErrors.msg)

C10_Witness ==
    /\ InPipeline
    /\ req.underTest
    /\ req.env.custom = Newf(InternalOnlyLog, <<"db password rejected">>)
    /\ out.w.status = 500
    /\ Logged(<<"db password rejected">>)

\* C11: Error.HTTPStatus is total: every declared code has a status of its
\* own, and a code outside the declared ones, or the zero value of ErrCode
\* (which is OK), has a server-error status (5xx).
C11_HTTPStatusTotal ==
    (Served /\ req.underTest /\ req.env.custom.k = "err") =>
        /\ req.env.custom.code \in ErrCodes =>
              HTTPStatus(req.env.custom.code) \in 100..599
        /\ (req.env.custom.code \notin ErrCodes \/ req.env.custom.code = OK) =>
              HTTPStatus(req.env.custom.code) \in 500..599

\* C12: called with an empty target, the by-target handler returns an
\* InvalidArgument error, whose status is 400, and no call goes out to the
\* store's backend.
C12_EmptyTargetRejected ==
    (pc = "done" /\ call.route = "byTarget" /\ call.target = "") =>
        /\ ret.k = "err"
        /\ ret.code = InvalidArgument
        /\ HTTPStatus(ret.code) = 400
        /\ call.backend = NoBackend
        /\ HandlerCalls(call.route, grafanaURL, call.target) = 0

C12_Witness ==
    /\ pc = "done"
    /\ call.route = "byTarget"
    /\ call.target = ""
    /\ grafanaURL = GrafanaGoodURL
    /\ ret.k = "err"

\* C13: a GET of /api/v1/metrics/, the metric name being empty, is answered
\* 400 and no call goes out to the metrics backend, on the service and on
\* the legacy server alike.
C13_EmptyMetricName ==
    (Served /\ req.method = "GET" /\ req.path = <<"api", "v1", "metrics", "">>) =>
        /\ out.w.status = 400
        /\ out.bcalls = 0

\* a GET of a probe route whose handler does not panic
ProbeServed ==
    /\ Served
    /\ req.legacy = ""
    /\ req.method = "GET"
    /\ req.path \in {<<"liveness">>, <<"readiness">>, <<"healthz">>}
    /\ req.env.fault = "none"

IsLayer(m) == m # "nil"

Reverse(q) == [i \in 1..Len(q) |-> q[Len(q) + 1 - i]]

\* the layers are entered in the order given and left in the reverse order
InAndOut(layers) ==
    [i \in 1..Len(layers) |-> <<"enter", layers[i]>>]
    \o [i \in 1..Len(layers) |-> <<"exit", Reverse(layers)[i]>>]

\* the handler the route of a path is bound to
HandlerAt(path) ==
    CASE path = <<"api", "v1", "health">> -> "QueryHealthChecks"
      [] path = <<"api", "v1", "alerts">> -> "QueryAlerts"
      [] path = <<"api", "v1", "test">>   -> "UnderTest"
      [] path = <<"readiness">>           -> "Readiness"
      [] path \in {<<"liveness">>, <<"healthz">>} -> "Liveness"
      [] OTHER                            -> "QueryHealthCheckByTarget"

\* a GET of a route registered with App.HandlerFunc
ChainRun ==
    /\ Served
    /\ req.legacy = ""
    /\ req.method = "GET"
    /\ req.path \in MainPaths \cup {<<"api", "v1", "test">>}

\* C15: a request to a route with the App's middleware enters the tracing
\* span, Logger, Errors, the metrics capture (Prometheus, then Metrics),
\* Panics, Cors, the route's own middleware in the order given with its nil
\* entries skipped, and the handler, and leaves them in the reverse order.
C15_MiddlewareOrder ==
    ChainRun =>
        out.trail = InAndOut(<<"span", "Logger", "Errors", "Prometheus", "Metrics",
                               "Panics", "Cors">>
                             \o SelectSeq(req.mw, IsLayer)
                             \o <<HandlerAt(req.path)>>)

C15_Witness ==
    /\ ChainRun
    /\ req.mw = <<"Panics", "nil", "Cors">>
    /\ Len(out.trail) = 20
    /\ out.trail[9] = <<"enter", "Cors">>
    /\ out.trail[12] = <<"exit", "Cors">>

\* the world as the closure of the route finds it when the handler has
\* returned: its Encoder is what Respond is given
BeforeRespond ==
    LET r == [method |-> req.method, path |-> req.path,
              target |-> IF Len(req.path) = 4 THEN req.path[4] ELSE ""]
        x == [World(req.env) EXCEPT !.ctx = {"writer", "trace"}]
    IN  Call(IF ProbeServed THEN <<HandlerAt(req.path)>>
             ELSE Wrapped(req.mw, HandlerAt(req.path)), x, r)

\* C16: Respond writes 204 and no body for a nil Encoder; 500 and no body
\* when Encode fails; and otherwise the encoded bytes with the content type,
\* under the status HTTPStatus() gives when the Encoder has that method and
\* under 200 when it has not.  A status that is no HTTP status is not
\* written: WriteHeader panics on it and the connection is aborted.
C16_Respond ==
    ((ChainRun \/ ProbeServed) /\ ~BeforeRespond.panic) =>
        CASE BeforeRespond.enc.k = "nil" ->
                ~out.aborted /\ out.w.status = 204 /\ out.w.body = NoBody
          [] BeforeRespond.enc.k = "badjson" ->
                ~out.aborted /\ out.w.status = 500 /\ out.w.body = NoBody
          [] BeforeRespond.enc.k = "json" ->
                /\ ~out.aborted
                /\ out.w.status = 200
                /\ out.w.headers.ContentType = "application/json"
                /\ out.w.body = JSONBody(Marshal(BeforeRespond.enc.data))
          [] BeforeRespond.enc.k = "err" ->
                IF HTTPStatus(BeforeRespond.enc.code) \in 100..999
                THEN /\ ~out.aborted
                     /\ out.w.status = HTTPStatus(BeforeRespond.enc.code)
                     /\ out.w.headers.ContentType = "application/json"
                     /\ out.w.body = JSONBody([code |-> BeforeRespond.enc.code,
                                               message |-> BeforeRespond.enc.msg])
                ELSE out.aborted /\ out.w.status = 0 /\ out.w.body = NoBody

C16_Witness ==
    /\ ChainRun
    /\ req.underTest
    /\ BeforeRespond.enc.k = "err"
    /\ BeforeRespond.enc.code = Unavailable
    /\ out.w.status = 503

\* a GET of /api/v1/health or /api/v1/alerts whose handler ran to its end
StoreRun ==
    /\ Served
    /\ req.legacy = ""
    /\ req.method = "GET"
    /\ req.path \in {<<"api", "v1", "health">>, <<"api", "v1", "alerts">>}
    /\ req.env.fault = "none"

\* what the store operation of the route says of this request's outcome
StoreError == fetchError(grafanaURL, req.env.b)

\* C17: nothing is cached and nothing is retried.  A request to /health or
\* /alerts makes one outbound call, and none when the backend URL is unset;
\* when the store operation fails the same request is answered with the error
\* response of the failure, and a 200 carries the summary computed from the
\* outcome of this request's own call, whatever was served before.
C17_NoCacheNoRetry ==
    StoreRun =>
        /\ out.bcalls <= 1
        /\ (grafanaURL = GrafanaUnset) => out.bcalls = 0
        /\ (StoreError # "") =>
              /\ out.w.status = 500
              /\ ErrorBody(out.w)
              /\ out.w.body.data.code = Internal
        /\ (StoreError = "") =>
              /\ out.bcalls = 1
              /\ out.w.status = 200
              /\ out.w.body =
                    JSONBody(Marshal(Handler(req.path[3], grafanaURL, req.env.b,
                                             "", req.env.now).data))

\* the second request fails at the store after a first one that succeeded
C17_Witness ==
    /\ StoreRun
    /\ served = 2
    /\ expvar.requests \in {2, SampleEvery + 1}
    /\ expvar.errors = 1
    /\ req.env.b = Unreachable
    /\ out.bcalls = 1
    /\ out.w.status = 500

\* the outbound call of the request brought back a JSON object in which data
\* is no object, or groups is no array, or no group has a rule to walk
Degenerate ==
    /\ req.env.b.kind = "body"
    /\ req.env.b.json.t = "obj"
    /\ \A i \in 1..Len(Items(Field(Field(req.env.b.json, "data"), "groups"))) :
          Items(Field(Items(Field(Field(req.env.b.json, "data"), "groups"))[i],
                      "rules")) = <<>>

\* the response is a 200 whose counts are all zero and whose result set has
\* no element (checks is written as null, alerts as [])
EmptySuccess ==
    /\ ~out.aborted
    /\ out.w.status = 200
    /\ out.w.body.k = "json"
    /\ out.w.body.data.total = 0
    /\ IF req.path[3] = "health"
       THEN /\ out.w.body.data.healthy = 0
            /\ out.w.body.data.down = 0
            /\ out.w.body.data.unknown = 0
            /\ out.w.body.data.checks = Null
       ELSE /\ out.w.body.data.firing = 0
            /\ out.w.body.data.pending = 0
            /\ out.w.body.data.normal = 0
            /\ out.w.body.data.alerts = <<>>

\* C18: on GET /api/v1/health and GET /api/v1/alerts a backend that cannot be
\* reached or that answers with another status than 200 gives an error
\* response, never a success; a fetched JSON object whose data, groups or
\* rules are absent, of the wrong type or empty gives a 200 with an empty
\* result set and zero counts.
C18_HardFailureOrEmpty ==
    (StoreRun /\ grafanaURL = GrafanaGoodURL) =>
        /\ (req.env.b \in {Unreachable, BadStatus}) =>
              /\ out.w.status = 500
              /\ ErrorBody(out.w)
        /\ Degenerate => EmptySuccess

C18_Witness ==
    /\ StoreRun
    /\ grafanaURL = GrafanaGoodURL
    /\ req.path[3] = "health"
    /\ req.env.b = Body(DocOfGroups(<<Obj([name |-> Str("probes"), rules |-> Num])>>))
    /\ EmptySuccess

\* the API server takes new connections
Accepting(r) == r.server["apiServer"] = "listening"

\* C19: once the signal is taken the API server accepts no new connection
\* and run waits in apiServer.Shutdown while requests are in flight and the
\* ShutdownTimeout has not passed; the API server is closed by force only
\* when the timeout has passed; and the tracing shutdown runs exactly as run
\* returns, with the API server no longer serving, on every return that
\* follows the initialisation of tracing.
C19_GracefulShutdown ==
    [][/\ (run.sig # "") => (~Accepting(run') /\ run'.conns["apiServer"] <= run.conns["apiServer"])
       /\ (run.pc = "select" /\ run'.sig # "") =>
              (run'.pc = "apiServer" /\ ~Accepting(run') /\ run'.tracing = "running")
       /\ (run.pc = "apiServer" /\ run'.pc # "apiServer") =>
              \/ run.conns["apiServer"] = 0 /\ run'.server["apiServer"] # "closed"
              \/ run.elapsed = ShutdownTimeout /\ run'.server["apiServer"] = "closed"
       /\ (run.server["apiServer"] # "closed" /\ run'.server["apiServer"] = "closed") =>
              (run.pc = "apiServer" /\ run.elapsed = ShutdownTimeout)
       /\ (run.tracing = "running" /\ run'.tracing # "running") =>
              (run'.tracing = "shutdown" /\ run'.pc = "returned"
               /\ run'.server["apiServer"] \in {"failed", "stopped", "closed"})
       /\ (run.tracing = "running" /\ run'.pc = "returned") => run'.tracing = "shutdown"
      ]_vars

\* run has returned from a drain that did not finish in time
C19_Witness ==
    /\ run.pc = "returned"
    /\ run.sig = "SIGTERM"
    /\ run.server["apiServer"] = "closed"
    /\ run.elapsed = ShutdownTimeout
    /\ run.tracing = "shutdown"
    /\ run.ReporterURI # ""

\* the handler of a request that waits for the backend comes to its end
CallEnds == (conn.pc = "calling") ~> (conn.pc = "done")

\* C20: a main-group request that calls the alerting backend is answered in
\* the end: whenever its outbound call is under way, a response reaches the
\* client, unless the client itself has closed the connection.
C20_EventuallyResponds ==
    (conn.pc = "calling") ~> (conn.pc = "done" /\ (conn.wire = "response" \/ conn.gone))

\* the requests dispatched so far, and whether all of them have completed
Dispatched == {i \in Goroutine : inflight.g[i].pc # "idle"}

AllCompleted == \A i \in Dispatched : inflight.g[i].pc = "done"

\* C21: the request, error and panic counters never decrease, and once all
\* of the N requests dispatched have completed the request counter has grown
\* by exactly N, whatever the interleaving.
C21_RequestsCounted ==
    [][/\ expvar'.requests >= expvar.requests
       /\ expvar'.errors >= expvar.errors
       /\ expvar'.panics >= expvar.panics
       /\ (\A i \in Goroutine : inflight'.g[i].pc \in {"idle", "done"}) =>
              expvar'.requests =
                  inflight'.base + Cardinality({i \in Goroutine : inflight'.g[i].pc = "done"})
      ]_vars

\* both goroutines have served a request, their steps interleaved
C21_Witness ==
    /\ Dispatched = Goroutine
    /\ AllCompleted
    /\ inflight.g[1].n = inflight.base + MaxInFlight
    /\ inflight.g[2].n = inflight.base + MaxInFlight
    /\ expvar.requests = inflight.base + MaxInFlight

\* the requests that found n%1000 == 0 and called AddGoroutines
Samplers == {i \in Goroutine : inflight.g[i].sampled}

\* C22: when the request counter passes a multiple of 1000, exactly one of
\* the requests reads that multiple from AddRequests and samples the
\* goroutine gauge, whatever the interleaving.
C22_EveryThousandthSampled ==
    (AllCompleted /\ inflight.base < SampleEvery /\ expvar.requests >= SampleEvery) =>
        Cardinality(Samplers) = 1

\* the "request completed" entries of the request's log
Completions ==
    {i \in 1..Len(out.log) : out.log[i].msg = "request completed"}

\* C23: the "request completed" entry that mid.Logger writes for a request
\* carries the status code written to the client for it.
C23_LoggedStatus ==
    ChainRun =>
        \A i \in Completions : out.log[i].status = out.w.status

Completed == {i \in Goroutine : inflight.g[i].pc = "done"}

\* the response to the request of a goroutine had a process that served
\* nothing before served it alone
ServedAlone(g) ==
    ServeHTTP(RouteTable,
              [World(g.env) EXCEPT
                  !.expvar = [goroutines |-> 0, requests |-> 0, errors |-> 0, panics |-> 0],
                  !.prom = [requests |-> 0, errors |-> 0, panics |-> 0]],
              g.method, g.path)

\* C24 as the specification words it: two requests with the same method and
\* path whose outbound calls are answered alike get the same status and body.
C24_OnlyMethodPathBackend ==
    \A i \in Completed, j \in Completed :
        (/\ inflight.g[i].method = inflight.g[j].method
         /\ inflight.g[i].path = inflight.g[j].path
         /\ inflight.g[i].env.b = inflight.g[j].env.b
         /\ inflight.g[i].env.fault = "none"
         /\ inflight.g[j].env.fault = "none")
        => inflight.g[i].w = inflight.g[j].w

\* C24: requests do not interfere.  Under every interleaving the status and
\* body of a request are those it would get served alone by a process that
\* served nothing else: they are fixed by its method, its path, the answer to
\* its own outbound call and the time its store operation reads from the
\* clock, not by any request in flight or served earlier.
C24_NoInterference ==
    \A i \in Completed :
        /\ inflight.g[i].w = ServedAlone(inflight.g[i]).w
        /\ inflight.g[i].aborted = ServedAlone(inflight.g[i]).panic

\* two requests run interleaved and get different answers from the backend
C24_Witness ==
    /\ Completed = Goroutine
    /\ inflight.g[1].n = inflight.g[2].n
    /\ inflight.g[1].path = inflight.g[2].path
    /\ inflight.g[1].env.b = Unreachable
    /\ inflight.g[1].w.status = 500
    /\ inflight.g[2].env.b # Unreachable
    /\ inflight.g[2].w.status = 200

\* what mid.Prometheus recorded for the request
Observed(metric) == {i \in 1..Len(out.obs) : out.obs[i].metric = metric}

\* C25: the status mid.Prometheus records for a request is the status written
\* to the client, and the request is counted as an error, under the error
\* kind sent to the client, exactly when that status is 400 or more.
C25_MetricsMatchResponse ==
    (ChainRun /\ ~out.aborted) =>
        /\ Observed("requests") # {}
        /\ \A i \in Observed("requests") : out.obs[i].label = Itoa(out.w.status)
        /\ (Observed("errors") # {}) <=> (out.w.status >= 400)
        /\ \A i \in Observed("errors") :
              /\ ErrorBody(out.w)
              /\ out.obs[i].label = CodeString(out.w.body.data.code)

\* what Store.QueryHealthChecks returns for the outbound answer at hand
ListOnSameAnswer == StoreQueryHealthChecks(grafanaURL, call.backend, call.now)

\* the places of the list whose check has the target asked for
PlacesOf(target) ==
    {i \in 1..Len(ListOnSameAnswer.checks) : ListOnSameAnswer.checks[i].Target = target}

\* C26: for a non-empty target t, QueryHealthCheckByTarget(t) succeeds
\* exactly when the list QueryHealthChecks returns for the same backend
\* answer holds a check with target t, and then it returns the target, status
\* and probe of the first such check of the list.
C26_ByTargetAgreesWithList ==
    (Returned("byTarget") /\ call.target # "") =>
        /\ (ret.k = "json") <=> (ListOnSameAnswer.err = "" /\ PlacesOf(call.target) # {})
        /\ (ret.k = "json") =>
              \E i \in PlacesOf(call.target) :
                 /\ \A j \in PlacesOf(call.target) : i <= j
                 /\ ret.data.Target = ListOnSameAnswer.checks[i].Target
                 /\ ret.data.Status = ListOnSameAnswer.checks[i].Status
                 /\ ret.data.Probe = ListOnSameAnswer.checks[i].Probe

\* the target is that of the second and third check of the list, which
\* differ in status
C26_Witness ==
    /\ Returned("byTarget")
    /\ ret.k = "json"
    /\ PlacesOf(call.target) = {2, 3}
    /\ ListOnSameAnswer.checks[2].Status # ListOnSameAnswer.checks[3].Status
    /\ ret.data.Status = ListOnSameAnswer.checks[2].Status

\* a GET of /api/v1/health/{target} with a target, whose handler ran to its end
ByTargetRun ==
    /\ Served
    /\ req.legacy = ""
    /\ req.method = "GET"
    /\ req.path \in {<<"api", "v1", "health", t>> : t \in Targets}
    /\ req.env.fault = "none"

\* the store operation of the request fails
ByTargetFails ==
    StoreQueryHealthCheckByTarget(grafanaURL, req.env.b, req.path[4], req.env.now).err # ""

\* C27: on GET /api/v1/health/{target} with a non-empty target every failure
\* of the store (backend URL unset, request that cannot be made or sent,
\* status other than 200, undecodable body, no rule with the target) is
\* answered 404 with the NotFound kind; the route answers nothing but 200 and
\* that 404.
C27_ByTargetFailuresNotFound ==
    ByTargetRun =>
        /\ ByTargetFails =>
              /\ out.w.status = 404
              /\ ErrorBody(out.w)
              /\ out.w.body.data.code = NotFound
        /\ ~ByTargetFails => out.w.status = 200
        /\ ~out.aborted

\* the backend answers 500 and the request is answered 404
C27_Witness ==
    /\ ByTargetRun
    /\ grafanaURL = GrafanaGoodURL
    /\ req.env.b = BadStatus
    /\ out.w.status = 404
    /\ out.w.body.data.code = NotFound

\* the requests whose handler panics
Panicking == {i \in Dispatched : inflight.g[i].env.fault = "panic"}

\* C28: the expvar counters keep errors <= requests in every state, with
\* requests in flight or not; when none is in flight panics <= errors <=
\* requests; and the requests whose handler panicked have each added exactly
\* one to requests, errors and panics: with all requests completed, panics
\* counts the requests that panicked, errors those answered with an error
\* (the ones that panicked among them) and requests all of them.
C28_CounterOrder ==
    /\ expvar.errors <= expvar.requests
    /\ AllCompleted =>
          /\ expvar.panics <= expvar.errors
          /\ expvar.panics = Cardinality(Panicking)
          /\ expvar.errors = Cardinality({i \in Completed : inflight.g[i].w.status >= 400})
          /\ \A i \in Panicking : inflight.g[i].w.status = 500
          /\ expvar.requests = inflight.base + Cardinality(Completed)

\* two requests were served interleaved, one of them panicked, the other
\* failed at the store
C28_Witness ==
    /\ Completed = Goroutine
    /\ inflight.base = 0
    /\ inflight.g[1].n = 2
    /\ inflight.g[2].n = 2
    /\ Panicking = {1}
    /\ expvar.panics = 1
    /\ expvar.errors = 2

\* Shutdown or Close has been called on the debug server
DebugTouched(r) == r.server["debugServer"] \in {"draining", "stopped", "closed"}

\* C29: debugServer.Shutdown is entered only from an apiServer.Shutdown that
\* returned nil, and under the same context: the seconds counted against
\* ShutdownTimeout run on.  When apiServer.Shutdown fails, run closes the API
\* server and returns an error, and neither Shutdown nor Close is called on
\* the debug server.
C29_DebugAfterAPI ==
    [][/\ (run.pc # "debugServer" /\ run'.pc = "debugServer") =>
              /\ run.pc = "apiServer"
              /\ run.conns["apiServer"] = 0
              /\ run'.server["apiServer"] = "stopped"
              /\ run'.elapsed = run.elapsed
       /\ (~DebugTouched(run) /\ DebugTouched(run')) =>
              \/ run.pc = "apiServer" /\ run'.server["apiServer"] = "stopped"
              \/ run.pc = "debugServer"
       /\ (run.pc = "apiServer" /\ run'.pc = "returned") =>
              /\ run.elapsed = ShutdownTimeout
              /\ run'.server["apiServer"] = "closed"
              /\ run'.err # ""
              /\ ~DebugTouched(run')
              /\ run'.server["debugServer"] = run.server["debugServer"]
              /\ run'.conns["debugServer"] = run.conns["debugServer"]
       /\ (run.pc = "debugServer" /\ run'.server["debugServer"] = "closed") =>
              run.elapsed = ShutdownTimeout
      ]_vars

\* run has returned from a failed apiServer.Shutdown and the debug server
\* still listens, with a request in flight
C29_Witness ==
    /\ run.pc = "returned"
    /\ run.server["apiServer"] = "closed"
    /\ run.server["debugServer"] = "listening"
    /\ run.conns["debugServer"] > 0
    /\ run.err # ""

\* the activeAt string of the first element of the rule's alerts, "" when
\* there is none
FirstActiveAt(p) ==
    LET alerts == Items(Field(RuleAt(p), "alerts"))
        v == IF Len(alerts) > 0 THEN Field(alerts[1], "activeAt") ELSE Absent
    IN  IF v.t = "str" THEN v.s ELSE ""

\* the rule at p is projected into the answer: every retained rule in the
\* list, the first rule carrying the target in the answer by target
Shown(p) ==
    /\ p \in Retained
    /\ ret.k = "json"
    /\ \/ Returned("health")
       \/ /\ Returned("byTarget")
          /\ call.target = TargetOf(p)
          /\ \A q \in Carrying(call.target) : ~Before(q, p)

\* the LastChecked of the check projected from the rule at p
LastCheckedAt(p) ==
    IF call.route = "health" THEN ret.data.Checks[Rank(p)].LastChecked
    ELSE ret.data.LastChecked

\* C30 as the specification words it: lastChecked is the activeAt of the
\* first alert whenever that parses as RFC3339, and the current time otherwise.
C30_LastCheckedParsed ==
    \A p \in RulePositions :
        Shown(p) =>
            LastCheckedAt(p) = IF TimeParse(FirstActiveAt(p)).ok
                               THEN TimeParse(FirstActiveAt(p)).t ELSE call.now

\* C30: for a retained rule lastChecked is the activeAt of the first element
\* of the rule's alerts when that parses as RFC3339 to another time than the
\* zero time, and the current time otherwise; only the first alert counts,
\* and lastChecked is never the zero time.
C30_LastChecked ==
    \A p \in RulePositions :
        Shown(p) =>
            /\ LastCheckedAt(p) = IF /\ TimeParse(FirstActiveAt(p)).ok
                                     /\ TimeParse(FirstActiveAt(p)).t # ZeroTime
                                  THEN TimeParse(FirstActiveAt(p)).t ELSE call.now
            /\ LastCheckedAt(p) # ZeroTime

\* the first alert of the rule has no parseable activeAt, the second has one,
\* and lastChecked is the current time
C30_Witness ==
    /\ Returned("health")
    /\ ret.k = "json"
    /\ \E p \in Retained :
          /\ Len(Items(Field(RuleAt(p), "alerts"))) = 2
          /\ ~TimeParse(FirstActiveAt(p)).ok
          /\ Field(Items(Field(RuleAt(p), "alerts"))[2], "activeAt") = Str("2024-05-01T10:00:00Z")
          /\ ret.data.Checks[Rank(p)].LastChecked = call.now
          /\ call.now \in Clock

====
